---- MODULE Spec2Model ----
(***************************************************************************)
(* Model of libdrgn/linux_kernel.c: VMCOREINFO parsing, the depmod index   *)
(* lookup, the loaded-module iterator and the debug-info discovery run.    *)
(***************************************************************************)
EXTENDS Integers, Sequences, FiniteSets, TLC

VARIABLES
    vm_in,      \* parse_vmcoreinfo: the descriptor (desc, descsz) and how it was built
    vm_pos,     \* parse_vmcoreinfo: `line`, an index into the descriptor (1-based)
    vm_ret,     \* parse_vmcoreinfo: *ret, the struct vmcoreinfo being filled in
    vm_err,     \* parse_vmcoreinfo: the error kind returned ("none" for NULL)
    vm_pc       \* parse_vmcoreinfo: "call", "loop", "check", "done"

vm_vars == <<vm_in, vm_pos, vm_ret, vm_err, vm_pc>>

VARIABLES
    dm_index,   \* depmod_index: the mapped bytes (addr, len) and the map they came from
    dm_name,    \* depmod_index_find: the name looked up, a byte string
    dm_n,       \* depmod_index_find: how many bytes of name are consumed (name - name0)
    dm_pos,     \* depmod_index_find: buffer.bb.pos as an offset from addr
    dm_offset,  \* depmod_index_find: the last tagged offset read (flags, offset)
    dm_path,    \* depmod_index_find: *path_ret, <<>> for NULL, else (start, bytes)
    dm_len,     \* depmod_index_find: *len_ret
    dm_err,     \* depmod_index_find: the error kind returned ("none" for NULL)
    dm_why,     \* depmod_index_find: the statement that ended the walk
    dm_nodes,   \* depmod_index_find: number of nodes visited
    dm_pc       \* depmod_index_find: "call", "node", "values", "done"

dm_vars ==
    <<dm_index, dm_name, dm_n, dm_pos, dm_offset, dm_path, dm_len, dm_err,
      dm_why, dm_nodes, dm_pc>>

(***************************************************************************)
(* uint64_t.  TLC integers are 32-bit, so a 64-bit value is kept as four   *)
(* 16-bit limbs, least significant first; arithmetic wraps at 2^64.        *)
(***************************************************************************)
Limb == 2^16

U64(n) == <<n % Limb, (n \div Limb) % Limb, 0, 0>>

U64Zero == <<0, 0, 0, 0>>

U64Max == <<Limb - 1, Limb - 1, Limb - 1, Limb - 1>>

\* v * m + d, with the carry out of bit 63 reported
U64MulAdd(v, m, d) ==
    LET t1 == v[1] * m + d
        t2 == v[2] * m + (t1 \div Limb)
        t3 == v[3] * m + (t2 \div Limb)
        t4 == v[4] * m + (t3 \div Limb)
    IN  [val |-> <<t1 % Limb, t2 % Limb, t3 % Limb, t4 % Limb>>,
         carry |-> (t4 \div Limb) > 0]

\* a + b modulo 2^64
U64Add(a, b) ==
    LET t1 == a[1] + b[1]
        t2 == a[2] + b[2] + (t1 \div Limb)
        t3 == a[3] + b[3] + (t2 \div Limb)
        t4 == a[4] + b[4] + (t3 \div Limb)
    IN  <<t1 % Limb, t2 % Limb, t3 % Limb, t4 % Limb>>

\* -v modulo 2^64
U64Neg(v) ==
    U64Add(<<Limb - 1 - v[1], Limb - 1 - v[2], Limb - 1 - v[3], Limb - 1 - v[4]>>,
           U64(1))

U64Less(a, b) ==
    \/ a[4] < b[4]
    \/ a[4] = b[4] /\ a[3] < b[3]
    \/ a[4] = b[4] /\ a[3] = b[3] /\ a[2] < b[2]
    \/ a[4] = b[4] /\ a[3] = b[3] /\ a[2] = b[2] /\ a[1] < b[1]

U64Leq(a, b) == a = b \/ U64Less(a, b)

(***************************************************************************)
(* Characters are one-character strings; NUL stands for the byte 0 and for *)
(* whatever byte lies past the end of a buffer.                            *)
(***************************************************************************)
NUL == "NUL"

\* the vertical tab, byte 11
VT == "VT"

At(s, i) == IF i \in 1..Len(s) THEN s[i] ELSE NUL

\* isspace(c) in the C locale: space, \t, \n, \v, \f, \r
IsSpace(c) == c \in {" ", "\t", "\n", VT, "\f", "\r"}

DigitVal(c) ==
    CASE c = "0" -> 0 [] c = "1" -> 1 [] c = "2" -> 2 [] c = "3" -> 3
      [] c = "4" -> 4 [] c = "5" -> 5 [] c = "6" -> 6 [] c = "7" -> 7
      [] c = "8" -> 8 [] c = "9" -> 9
      [] c \in {"a", "A"} -> 10 [] c \in {"b", "B"} -> 11
      [] c \in {"c", "C"} -> 12 [] c \in {"d", "D"} -> 13
      [] c \in {"e", "E"} -> 14 [] c \in {"f", "F"} -> 15
      [] OTHER -> 99

RECURSIVE SkipSpace(_, _)
SkipSpace(s, i) == IF IsSpace(At(s, i)) THEN SkipSpace(s, i + 1) ELSE i

\* the digit loop of strtoull: consumes digits of base b from index i
RECURSIVE StrtoullDigits(_, _, _, _, _)
StrtoullDigits(s, i, b, acc, over) ==
    IF DigitVal(At(s, i)) < b
    THEN LET r == U64MulAdd(acc, b, DigitVal(At(s, i)))
         IN  StrtoullDigits(s, i + 1, b, r.val, over \/ r.carry)
    ELSE [val |-> acc, end |-> i, over |-> over]

\* the last index strtoull examines: that behind the digits it took, or the
\* one behind an 0x that no hexadecimal digit follows
StrtoullReach(s, i1, base, dend) ==
    IF /\ base \in {0, 16}
       /\ At(s, i1) = "0"
       /\ At(s, i1 + 1) \in {"x", "X"}
       /\ dend < i1 + 2
    THEN i1 + 2 ELSE dend

\* what strtoull returns for the digits d found from index i2 on
StrtoullResult(s, line, base, neg, i1, i2, d) ==
    IF d.end = i2
    THEN [value |-> U64Zero, end |-> line, erange |-> FALSE,
          reach |-> StrtoullReach(s, i1, base, d.end)]
    ELSE IF d.over
    THEN [value |-> U64Max, end |-> d.end, erange |-> TRUE,
          reach |-> StrtoullReach(s, i1, base, d.end)]
    ELSE [value |-> IF neg THEN U64Neg(d.val) ELSE d.val,
          end |-> d.end, erange |-> FALSE,
          reach |-> StrtoullReach(s, i1, base, d.end)]

\* strtoull(&s[line], &end, base) for base 0, 10 or 16.  It reads on from
\* `line` without regard to the newline or the end of the buffer; `reach`
\* is the last index it examined.
strtoull(s, line, base) ==
    LET i0 == SkipSpace(s, line)
        neg == At(s, i0) = "-"
        i1 == IF At(s, i0) \in {"-", "+"} THEN i0 + 1 ELSE i0
        hexpfx == /\ At(s, i1) = "0"
                  /\ At(s, i1 + 1) \in {"x", "X"}
                  /\ DigitVal(At(s, i1 + 2)) < 16
        b == IF base # 0 THEN base
             ELSE IF hexpfx THEN 16
             ELSE IF At(s, i1) = "0" THEN 8 ELSE 10
        i2 == IF base \in {0, 16} /\ hexpfx THEN i1 + 2 ELSE i1
    IN  StrtoullResult(s, line, base, neg, i1, i2,
                       StrtoullDigits(s, i2, b, U64Zero, FALSE))

\* lines 62-69 for the result r of strtoull.  The descriptor has no
\* terminator, so a conversion that examined a byte behind its last one
\* (past) read outside the buffer of len bytes it was given.
LineToU64Checked(r, line, newline, len) ==
    IF r.erange
    THEN [err |-> "OVERFLOW", value |-> U64Zero, past |-> r.reach > len]
    ELSE IF r.end = line \/ r.end # newline
         THEN [err |-> "OVERFLOW", value |-> U64Zero, past |-> r.reach > len]
    ELSE [err |-> "none", value |-> r.value, past |-> r.reach > len]

\* line_to_u64(line, newline, base, ret): err is the error kind, value is
\* what is stored through ret when err = "none"
line_to_u64(s, line, newline, base) ==
    LineToU64Checked(strtoull(s, line, base), line, newline, Len(s))

\* linematch(&line, prefix): strncmp(*line, prefix, strlen(prefix)) == 0
linematch(s, line, prefix) ==
    \A k \in 1..Len(prefix) : At(s, line + k - 1) = prefix[k]

\* memchr(line, '\n', end - line): the index of the first newline at or
\* after `line`, 0 when there is none
memchr(s, i, c) ==
    LET hits == {k \in i..Len(s) : s[k] = c}
    IN  IF hits = {} THEN 0 ELSE CHOOSE k \in hits : \A j \in hits : k <= j

\* strchr(&s[i], c) on a string: the index of the first c at or after i that
\* no NUL byte precedes, 0 when there is none
strchr(s, i, c) ==
    LET k == memchr(s, i, c)
        z == memchr(s, i, NUL)
    IN  IF k = 0 \/ (z # 0 /\ z < k) THEN 0 ELSE k

KeyOsrelease == <<"O", "S", "R", "E", "L", "E", "A", "S", "E", "=">>

KeyPagesize == <<"P", "A", "G", "E", "S", "I", "Z", "E", "=">>

KeyKerneloffset == <<"K", "E", "R", "N", "E", "L", "O", "F", "F", "S", "E", "T", "=">>

KeySwapper ==
    <<"S", "Y", "M", "B", "O", "L", "(", "s", "w", "a", "p", "p", "e", "r", "_",
      "p", "g", "_", "d", "i", "r", ")", "=">>

KeyL5 ==
    <<"N", "U", "M", "B", "E", "R", "(", "p", "g", "t", "a", "b", "l", "e", "_",
      "l", "5", "_", "e", "n", "a", "b", "l", "e", "d", ")", "=">>

\* the bases parse_vmcoreinfo passes to line_to_u64
BasePagesize == 0

BaseKerneloffset == 16

BaseSwapper == 16

BaseL5 == 0

\* sizeof(ret->osrelease)
OsreleaseSize == 128

(***************************************************************************)
(* parse_vmcoreinfo.  The parser works on the flat byte sequence VmDesc;    *)
(* vm_in also keeps the lines (key, value) and the last fragment without a *)
(* newline that the descriptor was built from.                             *)
(***************************************************************************)
RECURSIVE Flatten(_)
Flatten(lines) ==
    IF lines = <<>> THEN <<>>
    ELSE Head(lines).key \o Head(lines).val \o <<"\n">> \o Flatten(Tail(lines))

VmDesc == vm_in.desc

\* lines 78-81: the fields the function resets before it reads the descriptor
parse_vmcoreinfo_reset(ret) ==
    [ret EXCEPT !.osrelease = <<>>,
                !.page_size = U64Zero,
                !.kaslr_offset = U64Zero,
                !.pgtable_l5_enabled = FALSE]

parse_vmcoreinfo_begin ==
    /\ vm_pc = "call"
    /\ vm_ret' = parse_vmcoreinfo_reset(vm_ret)
    /\ vm_pos' = 1
    /\ vm_pc' = "loop"
    /\ UNCHANGED <<vm_in, vm_err>>

VmReturn(e) ==
    /\ vm_err' = e
    /\ vm_pc' = "done"

\* the read behind the descriptor hit an unmapped page: the call never
\* returns
VmFault ==
    /\ vm_pc' = "fault"
    /\ UNCHANGED vm_err

VmNextLine(newline) ==
    /\ vm_pos' = newline + 1
    /\ UNCHANGED <<vm_err, vm_pc>>

\* one numeric line, r being what line_to_u64 answers: the value goes into
\* the named field, or the error is returned; a conversion that read behind
\* the descriptor returns its error or is killed
VmNumberResult(r, newline, field) ==
    IF r.past
    THEN /\ \/ VmReturn("OVERFLOW")
            \/ VmFault
         /\ UNCHANGED <<vm_ret, vm_pos>>
    ELSE IF r.err # "none"
    THEN /\ VmReturn(r.err)
         /\ UNCHANGED <<vm_ret, vm_pos>>
    ELSE /\ vm_ret' = [vm_ret EXCEPT ![field] =
                          IF field = "pgtable_l5_enabled"
                          THEN r.value # U64Zero ELSE r.value]
         /\ VmNextLine(newline)

VmNumber(desc, line, newline, base, field) ==
    VmNumberResult(line_to_u64(desc, line, newline, base), newline, field)

\* one iteration of the while loop, lines 82-120
parse_vmcoreinfo_line ==
    /\ vm_pc = "loop"
    /\ vm_pos <= Len(VmDesc)
    /\ memchr(VmDesc, vm_pos, "\n") # 0
    /\ LET desc == VmDesc
           newline == memchr(desc, vm_pos, "\n")
       IN  IF linematch(desc, vm_pos, KeyOsrelease)
           THEN LET line == vm_pos + Len(KeyOsrelease)
                IN  IF newline - line >= OsreleaseSize
                    THEN /\ VmReturn("OTHER")
                         /\ UNCHANGED <<vm_ret, vm_pos>>
                    ELSE /\ vm_ret' = [vm_ret EXCEPT !.osrelease =
                                          SubSeq(desc, line, newline - 1)]
                         /\ VmNextLine(newline)
           ELSE IF linematch(desc, vm_pos, KeyPagesize)
           THEN VmNumber(desc, vm_pos + Len(KeyPagesize), newline,
                         BasePagesize, "page_size")
           ELSE IF linematch(desc, vm_pos, KeyKerneloffset)
           THEN VmNumber(desc, vm_pos + Len(KeyKerneloffset), newline,
                         BaseKerneloffset, "kaslr_offset")
           ELSE IF linematch(desc, vm_pos, KeySwapper)
           THEN VmNumber(desc, vm_pos + Len(KeySwapper), newline,
                         BaseSwapper, "swapper_pg_dir")
           ELSE IF linematch(desc, vm_pos, KeyL5)
           THEN VmNumber(desc, vm_pos + Len(KeyL5), newline,
                         BaseL5, "pgtable_l5_enabled")
           ELSE /\ VmNextLine(newline)
                /\ UNCHANGED vm_ret
    /\ UNCHANGED vm_in

\* lines 121-134: the result once the loop has ended
parse_vmcoreinfo_result(ret) ==
    IF At(ret.osrelease, 1) = NUL THEN "OTHER"
    ELSE IF ret.page_size = U64Zero THEN "OTHER"
    ELSE IF ret.swapper_pg_dir = U64Zero THEN "OTHER"
    ELSE "none"

\* the loop ends (line >= end, or no newline is left) and the required
\* fields are checked
parse_vmcoreinfo_check ==
    /\ vm_pc = "loop"
    /\ \/ vm_pos > Len(VmDesc)
       \/ memchr(VmDesc, vm_pos, "\n") = 0
    /\ VmReturn(parse_vmcoreinfo_result(vm_ret))
    /\ UNCHANGED <<vm_in, vm_pos, vm_ret>>

(***************************************************************************)
(* Descriptors given to parse_vmcoreinfo.                                  *)
(***************************************************************************)
MaxLines == 3

MaxNumLen == 3

RECURSIVE SeqsUpTo(_, _)
SeqsUpTo(S, n) ==
    IF n = 0 THEN {<<>>}
    ELSE LET shorter == SeqsUpTo(S, n - 1)
         IN  shorter \cup {Append(s, x) : s \in {t \in shorter : Len(t) = n - 1}, x \in S}

KeyUnknown == <<"C", "R", "A", "S", "H", "T", "I", "M", "E", "=">>

LongRelease == [i \in 1..OsreleaseSize |-> "6"]

VmLineSet ==
    {[key |-> KeyOsrelease, val |-> <<"6", ".", "1">>],
     [key |-> KeyOsrelease, val |-> <<>>],
     [key |-> KeyOsrelease, val |-> LongRelease],
     [key |-> KeyPagesize, val |-> <<"4", "0", "9", "6">>],
     [key |-> KeyPagesize, val |-> <<"3">>],
     [key |-> KeyPagesize, val |-> <<"z">>],
     [key |-> KeyKerneloffset, val |-> <<"1", "a">>],
     [key |-> KeySwapper, val |-> <<"1", "0", "0", "0">>],
     [key |-> KeySwapper, val |-> <<"0">>],
     [key |-> KeyL5, val |-> <<"1">>],
     [key |-> KeyUnknown, val |-> <<"1">>]}

VmTails == {<<>>, KeyPagesize \o <<"4", "0", "9", "6">>}

NumAlphabet == {"0", "1", "8", "a", "x", "g", " ", "\r", "-"}

U64MaxDec ==
    <<"1", "8", "4", "4", "6", "7", "4", "4", "0", "7", "3", "7", "0", "9", "5",
      "5", "1", "6", "1", "5">>

U64OverDec ==
    <<"1", "8", "4", "4", "6", "7", "4", "4", "0", "7", "3", "7", "0", "9", "5",
      "5", "1", "6", "1", "6">>

U64MaxHex == [i \in 1..16 |-> "f"]

U64OverHex == <<"1">> \o [i \in 1..16 |-> "0"]

NumStrings ==
    SeqsUpTo(NumAlphabet, MaxNumLen)
        \cup {U64MaxDec, U64OverDec, U64MaxHex, U64OverHex, <<"+", "1", "0">>}

NumericKeys == {KeyPagesize, KeyKerneloffset, KeySwapper, KeyL5}

\* a complete descriptor; a test line appended to it overrides one field
VmBaseLines ==
    <<[key |-> KeyOsrelease, val |-> <<"6", ".", "1">>],
      [key |-> KeyPagesize, val |-> <<"4", "0", "9", "6">>],
      [key |-> KeySwapper, val |-> <<"1", "0", "0", "0">>]>>

VmInputs ==
    {[desc |-> Flatten(l) \o t, lines |-> l, tail |-> t, test |-> FALSE] :
        l \in SeqsUpTo(VmLineSet, MaxLines), t \in VmTails}

\* a complete descriptor followed by one numeric line under test
VmNumInputs ==
    {[desc |-> Flatten(Append(VmBaseLines, [key |-> k, val |-> s])),
      lines |-> Append(VmBaseLines, [key |-> k, val |-> s]), tail |-> <<>>,
      test |-> TRUE] : k \in NumericKeys, s \in NumStrings}

\* the record before the call: zeroed (a fresh struct drgn_program) or
\* holding the result of an earlier parse
VmPriorClean ==
    [osrelease |-> <<>>, page_size |-> U64Zero, kaslr_offset |-> U64Zero,
     swapper_pg_dir |-> U64Zero, pgtable_l5_enabled |-> FALSE]

VmPriorUsed ==
    [osrelease |-> <<"5">>, page_size |-> U64(8192), kaslr_offset |-> U64(16),
     swapper_pg_dir |-> U64(8192), pgtable_l5_enabled |-> TRUE]

VmInit ==
    /\ vm_in \in VmInputs
    /\ vm_ret \in {VmPriorClean, VmPriorUsed}
    /\ vm_pos = 1
    /\ vm_err = "none"
    /\ vm_pc = "call"

VmNumInit ==
    /\ vm_in \in VmNumInputs
    /\ vm_ret \in {VmPriorClean, VmPriorUsed}
    /\ vm_pos = 1
    /\ vm_err = "none"
    /\ vm_pc = "call"

\* no parse_vmcoreinfo call is in progress
VmIdle ==
    /\ vm_in = [desc |-> <<>>, lines |-> <<>>, tail |-> <<>>, test |-> FALSE]
    /\ vm_ret = VmPriorClean
    /\ vm_pos = 1
    /\ vm_err = "none"
    /\ vm_pc = "idle"

(***************************************************************************)
(* struct binary_buffer over the depmod index (binary_buffer.h): every     *)
(* read checks the bytes left before it advances.  pos counts from 0;      *)
(* depmod_index_buffer_init passes little_endian = false.                  *)
(***************************************************************************)
BbFail == [ok |-> FALSE, val |-> <<>>, pos |-> 0]

binary_buffer_next_u8(buf, pos) ==
    IF Len(buf) - pos < 1 THEN BbFail
    ELSE [ok |-> TRUE, val |-> buf[pos + 1], pos |-> pos + 1]

\* the four bytes, most significant first
binary_buffer_next_u32(buf, pos) ==
    IF Len(buf) - pos < 4 THEN BbFail
    ELSE [ok |-> TRUE, val |-> SubSeq(buf, pos + 1, pos + 4), pos |-> pos + 4]

\* a string up to its NUL; fails when no NUL is left in the buffer
binary_buffer_next_string(buf, pos) ==
    LET nul == memchr(buf, pos + 1, 0)
    IN  IF nul = 0 THEN BbFail
        ELSE [ok |-> TRUE, val |-> SubSeq(buf, pos + 1, nul - 1), pos |-> nul]

\* n is a size_t: a negative int converts to a count no buffer holds
binary_buffer_skip(buf, pos, n) ==
    IF n < 0 \/ Len(buf) - pos < n THEN BbFail
    ELSE [ok |-> TRUE, val |-> <<>>, pos |-> pos + n]

(***************************************************************************)
(* depmod_index_find.  A tagged offset is kept as its top four bits and    *)
(* its low 28 bits (offset & INDEX_NODE_MASK).                             *)
(***************************************************************************)
\* 0x20000000 >> 28
INDEX_NODE_CHILDS == 2

\* 0x40000000 >> 28
INDEX_NODE_VALUES == 4

\* 0x80000000 >> 28
INDEX_NODE_PREFIX == 8

\* ':'
Colon == 58

\* sizeof(magic) + sizeof(version)
DepmodHeaderLen == 8

HasFlag(offset, flag) == (offset.flags \div flag) % 2 = 1

TaggedOffset(b) ==
    [flags |-> b[1] \div 16,
     off |-> (b[1] % 16) * 2^24 + b[2] * 2^16 + b[3] * 2^8 + b[4]]

\* *name, with the terminating NUL as 0
NameAt(name, n) == IF n + 1 \in 1..Len(name) THEN name[n + 1] ELSE 0

\* the prefix comparison left out
NameHasPrefix_Unchecked(name, n, prefix) == TRUE

\* strncmp(name, prefix, prefix_len) == 0, name being consumed up to n
NameHasPrefix(name, n, prefix) ==
    \A k \in 1..Len(prefix) : NameAt(name, n + k - 1) = prefix[k]

DmStep(kind, why, pos, n, offset) ==
    [kind |-> kind, why |-> why, pos |-> pos, n |-> n, offset |-> offset]

\* the child table with the step to a child leaving the name where it is
depmod_index_find_childs_NameKept(buf, name, n, pos, offset) ==
    LET first == binary_buffer_next_u8(buf, pos)
        last == binary_buffer_next_u8(buf, first.pos)
        cur == NameAt(name, n)
    IN  IF ~first.ok THEN DmStep("error", "read", pos, n, offset)
        ELSE IF ~last.ok THEN DmStep("error", "read", first.pos, n, offset)
        ELSE IF cur # 0
        THEN IF cur < first.val \/ cur > last.val
             THEN DmStep("not_found", "no_child", last.pos, n, offset)
             ELSE LET sk == binary_buffer_skip(buf, last.pos, 4 * (cur - first.val))
                  IN  IF ~sk.ok THEN DmStep("error", "read", last.pos, n, offset)
                      ELSE DmStep("continue", "", sk.pos, n, offset)
        ELSE LET sk == binary_buffer_skip(buf, last.pos,
                                          4 * (last.val - first.val + 1))
             IN  IF ~sk.ok THEN DmStep("error", "read", last.pos, n, offset)
                 ELSE DmStep("break", "", sk.pos, n, offset)

\* the child table of a node, lines 1099-1118
depmod_index_find_childs(buf, name, n, pos, offset) ==
    LET first == binary_buffer_next_u8(buf, pos)
        last == binary_buffer_next_u8(buf, first.pos)
        cur == NameAt(name, n)
    IN  IF ~first.ok THEN DmStep("error", "read", pos, n, offset)
        ELSE IF ~last.ok THEN DmStep("error", "read", first.pos, n, offset)
        ELSE IF cur # 0
        THEN IF cur < first.val \/ cur > last.val
             THEN DmStep("not_found", "no_child", last.pos, n, offset)
             ELSE LET sk == binary_buffer_skip(buf, last.pos, 4 * (cur - first.val))
                  IN  IF ~sk.ok THEN DmStep("error", "read", last.pos, n, offset)
                      ELSE DmStep("continue", "", sk.pos, n + 1, offset)
        ELSE LET sk == binary_buffer_skip(buf, last.pos,
                                          4 * (last.val - first.val + 1))
             IN  IF ~sk.ok THEN DmStep("error", "read", last.pos, n, offset)
                 ELSE DmStep("break", "", sk.pos, n, offset)

\* what follows the prefix of a node, lines 1099-1123
depmod_index_find_after_prefix(buf, name, n, pos, offset) ==
    IF HasFlag(offset, INDEX_NODE_CHILDS)
    THEN depmod_index_find_childs(buf, name, n, pos, offset)
    ELSE IF NameAt(name, n) # 0
    THEN DmStep("not_found", "name_left", pos, n, offset)
    ELSE DmStep("break", "", pos, n, offset)

\* the bounds test on a node offset, line 1081
depmod_offset_out_of_bounds(off, len) == off > len

\* one iteration of the for loop, lines 1078-1124
depmod_index_find_node(buf, name, n, pos) ==
    LET word == binary_buffer_next_u32(buf, pos)
        offset == TaggedOffset(word.val)
    IN  IF ~word.ok THEN DmStep("error", "read", pos, n, [flags |-> 0, off |-> 0])
        ELSE IF depmod_offset_out_of_bounds(offset.off, Len(buf))
        THEN DmStep("error", "out_of_bounds", word.pos, n, offset)
        ELSE IF HasFlag(offset, INDEX_NODE_PREFIX)
        THEN LET prefix == binary_buffer_next_string(buf, offset.off)
             IN  IF ~prefix.ok THEN DmStep("error", "read", offset.off, n, offset)
                 ELSE IF ~NameHasPrefix(name, n, prefix.val)
                 THEN DmStep("not_found", "prefix", prefix.pos, n, offset)
                 ELSE depmod_index_find_after_prefix(buf, name,
                          n + Len(prefix.val), prefix.pos, offset)
        ELSE depmod_index_find_after_prefix(buf, name, n, offset.off, offset)

DmResult(why, err, path, setlen, len, pos) ==
    [why |-> why, err |-> err, path |-> path, setlen |-> setlen, len |-> len,
     pos |-> pos]

\* not_found: *path_ret = NULL; return NULL (lines 1148-1150)
depmod_not_found(why, pos) == DmResult(why, "none", <<>>, FALSE, 0, pos)

\* an error return: neither output is written
DmError(why, pos) == DmResult(why, "OTHER", <<"unset">>, FALSE, 0, pos)

\* the search for the delimiter of the path, line 1138
depmod_find_colon(buf, pos) == memchr(buf, pos + 1, Colon)

\* the value list with an empty list treated as malformed data
depmod_index_find_values_ZeroIsError(buf, pos, offset) ==
    IF ~HasFlag(offset, INDEX_NODE_VALUES) THEN depmod_not_found("no_values", pos)
    ELSE LET count == binary_buffer_next_u32(buf, pos)
             prio == binary_buffer_skip(buf, count.pos, 4)
             colon == depmod_find_colon(buf, prio.pos)
         IN  IF ~count.ok THEN DmError("read", pos)
             ELSE IF count.val = <<0, 0, 0, 0>>
             THEN DmError("zero_count", count.pos)
             ELSE IF ~prio.ok THEN DmError("read", count.pos)
             ELSE IF colon = 0 THEN DmError("no_colon", prio.pos)
             ELSE DmResult("found", "none",
                           <<prio.pos, SubSeq(buf, prio.pos + 1, colon - 1)>>,
                           TRUE, colon - 1 - prio.pos, prio.pos)

\* the value list, lines 1125-1146
depmod_index_find_values(buf, pos, offset) ==
    IF ~HasFlag(offset, INDEX_NODE_VALUES) THEN depmod_not_found("no_values", pos)
    ELSE LET count == binary_buffer_next_u32(buf, pos)
             prio == binary_buffer_skip(buf, count.pos, 4)
             colon == depmod_find_colon(buf, prio.pos)
         IN  IF ~count.ok THEN DmError("read", pos)
             ELSE IF count.val = <<0, 0, 0, 0>>
             THEN depmod_not_found("zero_count", count.pos)
             ELSE IF ~prio.ok THEN DmError("read", count.pos)
             ELSE IF colon = 0 THEN DmError("no_colon", prio.pos)
             ELSE DmResult("found", "none",
                           <<prio.pos, SubSeq(buf, prio.pos + 1, colon - 1)>>,
                           TRUE, colon - 1 - prio.pos, prio.pos)

DmFinish(r) ==
    /\ dm_why' = r.why
    /\ dm_err' = r.err
    /\ dm_path' = IF r.path = <<"unset">> THEN dm_path ELSE r.path
    /\ dm_len' = IF r.setlen THEN r.len ELSE dm_len
    /\ dm_pos' = r.pos
    /\ dm_pc' = "done"

\* lines 1071-1076: the cursor is put behind the header
depmod_index_find_begin ==
    /\ dm_pc = "call"
    /\ dm_pos' = DepmodHeaderLen
    /\ dm_pc' = "node"
    /\ UNCHANGED <<dm_index, dm_name, dm_n, dm_offset, dm_path, dm_len, dm_err,
                   dm_why, dm_nodes>>

depmod_index_find_loop ==
    /\ dm_pc = "node"
    /\ LET st == depmod_index_find_node(dm_index.bytes, dm_name, dm_n, dm_pos)
       IN  /\ dm_nodes' = dm_nodes + 1
           /\ dm_offset' = st.offset
           /\ dm_n' = st.n
           /\ CASE st.kind = "continue" ->
                     /\ dm_pos' = st.pos
                     /\ UNCHANGED <<dm_path, dm_len, dm_err, dm_why, dm_pc>>
                [] st.kind = "break" ->
                     /\ dm_pos' = st.pos
                     /\ dm_pc' = "values"
                     /\ UNCHANGED <<dm_path, dm_len, dm_err, dm_why>>
                [] st.kind = "not_found" -> DmFinish(depmod_not_found(st.why, st.pos))
                [] st.kind = "error" -> DmFinish(DmError(st.why, st.pos))
    /\ UNCHANGED <<dm_index, dm_name>>

depmod_index_find_end ==
    /\ dm_pc = "values"
    /\ DmFinish(depmod_index_find_values(dm_index.bytes, dm_pos, dm_offset))
    /\ UNCHANGED <<dm_index, dm_name, dm_n, dm_offset, dm_nodes>>

(***************************************************************************)
(* Depmod indexes given to depmod_index_find.  Each fixture is the         *)
(* serialisation of a map from names to value lists, in the layout depmod  *)
(* writes: header, tagged root offset, then the nodes, children first.     *)
(***************************************************************************)
\* {"ab": ["k/ab.ko:"]}
\*   12: prefix "ab", count 1, priority 0, "k/ab.ko:"        root = 0xc000000c
DepmodFixOne ==
    [bytes |->
        <<176, 7, 244, 87, 0, 2, 0, 1, 192, 0, 0, 12, 97, 98, 0, 0, 0, 0, 1, 0,
          0, 0, 0, 107, 47, 97, 98, 46, 107, 111, 58, 0>>,
     wellformed |-> TRUE,
     first |-> (<<97, 98>> :> <<107, 47, 97, 98, 46, 107, 111>>)]

\* {"a": ["d/a:", "e/a:"], "ab": ["d/ab: d/a"], "c": ["c:"]}
\*   12: count 1, "d/ab: d/a"                                 ("ab")
\*   30: childs 'b'..'b' -> 0x4000000c, count 2, "d/a:", "e/a:"  ("a")
\*   58: count 1, "c:"                                        ("c")
\*   69: childs 'a'..'c' -> 0x6000001e, 0, 0x4000003a         root = 0x20000045
DepmodFixTree ==
    [bytes |->
        <<176, 7, 244, 87, 0, 2, 0, 1, 32, 0, 0, 69, 0, 0, 0, 1, 0, 0, 0, 0,
          100, 47, 97, 98, 58, 32, 100, 47, 97, 0, 98, 98, 64, 0, 0, 12, 0, 0,
          0, 2, 0, 0, 0, 0, 100, 47, 97, 58, 0, 0, 0, 0, 1, 101, 47, 97, 58, 0,
          0, 0, 0, 1, 0, 0, 0, 0, 99, 58, 0, 97, 99, 96, 0, 0, 30, 0, 0, 0, 0,
          64, 0, 0, 58>>,
     wellformed |-> TRUE,
     first |-> (<<97>> :> <<100, 47, 97>>) @@ (<<97, 98>> :> <<100, 47, 97, 98>>)
               @@ (<<99>> :> <<99>>)]

\* {"ab": ["p/0:"], "abca": ["p/1:"], "abcb": ["p/2:q:"]}
\*   12: count 1, "p/1:"                                      ("abca")
\*   25: count 1, "p/2:q:"                                    ("abcb")
\*   40: childs 'a'..'b' -> 0x4000000c, 0x40000019            ("abc")
\*   50: prefix "ab", childs 'c'..'c' -> 0x20000028, count 1, "p/0:"
\*                                                            root = 0xe0000032
DepmodFixPrefix ==
    [bytes |->
        <<176, 7, 244, 87, 0, 2, 0, 1, 224, 0, 0, 50, 0, 0, 0, 1, 0, 0, 0, 0,
          112, 47, 49, 58, 0, 0, 0, 0, 1, 0, 0, 0, 0, 112, 47, 50, 58, 113, 58,
          0, 97, 98, 64, 0, 0, 12, 64, 0, 0, 25, 97, 98, 0, 99, 99, 32, 0, 0,
          40, 0, 0, 0, 1, 0, 0, 0, 0, 112, 47, 48, 58, 0>>,
     wellformed |-> TRUE,
     first |-> (<<97, 98>> :> <<112, 47, 48>>)
               @@ (<<97, 98, 99, 97>> :> <<112, 47, 49>>)
               @@ (<<97, 98, 99, 98>> :> <<112, 47, 50>>)]

DepmodFixtures == {DepmodFixOne, DepmodFixTree, DepmodFixPrefix}

\* a fixture with one byte behind the header overwritten
DepmodDamaged(f, i, b) ==
    [f EXCEPT !.bytes = [f.bytes EXCEPT ![i] = b], !.wellformed = FALSE]

DmDamageBytes == {0, 65, 255}

DepmodDamagedSet ==
    {DepmodDamaged(f, i, b) :
        f \in {DepmodFixOne, DepmodFixTree},
        i \in (DepmodHeaderLen + 1)..83, b \in DmDamageBytes}

(***************************************************************************)
(* Indexes whose node offsets lead back to a node already visited.  depmod *)
(* never writes such a file; depmod_index_validate checks the header only. *)
(***************************************************************************)
\*   12: childs 'a'..'a' -> 0x6000000c (itself), count 1, priority 0, "p:"
\*                                                            root = 0x6000000c
DepmodCycleSelf ==
    [bytes |->
        <<176, 7, 244, 87, 0, 2, 0, 1, 96, 0, 0, 12, 97, 97, 96, 0, 0, 12, 0, 0,
          0, 1, 0, 0, 0, 0, 112, 58, 0>>,
     wellformed |-> FALSE,
     first |-> <<>>]

\*   12: childs 'a'..'b' -> 0x20000016, 0x2000000c (itself)
\*   22: childs 'a'..'a' -> 0x2000000c                        root = 0x2000000c
DepmodCyclePair ==
    [bytes |->
        <<176, 7, 244, 87, 0, 2, 0, 1, 32, 0, 0, 12, 97, 98, 32, 0, 0, 22, 32, 0,
          0, 12, 97, 97, 32, 0, 0, 12>>,
     wellformed |-> FALSE,
     first |-> <<>>]

\*   12: prefix "", childs 'a'..'a' -> 0xa000000c (itself)    root = 0xa000000c
DepmodCycleEmptyPrefix ==
    [bytes |->
        <<176, 7, 244, 87, 0, 2, 0, 1, 160, 0, 0, 12, 0, 97, 97, 160, 0, 0, 12>>,
     wellformed |-> FALSE,
     first |-> <<>>]

\*   12: prefix "b", childs 'a'..'a' -> 0xa000000c (itself)   root = 0xa000000c
DepmodCyclePrefix ==
    [bytes |->
        <<176, 7, 244, 87, 0, 2, 0, 1, 160, 0, 0, 12, 98, 0, 97, 97, 160, 0, 0,
          12>>,
     wellformed |-> FALSE,
     first |-> <<>>]

DepmodCyclic ==
    {DepmodCycleSelf, DepmodCyclePair, DepmodCycleEmptyPrefix, DepmodCyclePrefix}

MaxNameLen == 4

\* 'A', 'a', 'b', 'c'
NameAlphabet == {65, 97, 98, 99}

DmProbeNames ==
    {<<>>, <<97>>, <<97, 98>>, <<99>>, <<98>>, <<97, 98, 99>>, <<65>>, <<97, 97>>}

\* the caller's depmod_path_len is an uninitialised local
DmPriorLens == {0, 99}

DmInitWith(indexes, names) ==
    /\ dm_index \in indexes
    /\ dm_name \in names
    /\ dm_n = 0
    /\ dm_pos = 0
    /\ dm_offset = [flags |-> 0, off |-> 0]
    /\ dm_path = <<"unset">>
    /\ dm_len \in DmPriorLens
    /\ dm_err = "none"
    /\ dm_why = ""
    /\ dm_nodes = 0
    /\ dm_pc = "call"

DmInit == DmInitWith(DepmodFixtures, SeqsUpTo(NameAlphabet, MaxNameLen))

DmAnyInit ==
    DmInitWith(DepmodFixtures \cup
                   {d \in DepmodDamagedSet : Len(d.bytes) <= 83}, DmProbeNames)

\* a caller's arguments: a cyclic index with any name, or another index with
\* a probe name
DmWalkInputs ==
    {<<d, nm>> : d \in DepmodCyclic,
                 nm \in SeqsUpTo(NameAlphabet \ {65}, MaxNameLen)}
        \cup {<<d, nm>> : d \in DepmodFixtures \cup DepmodDamagedSet,
                          nm \in DmProbeNames}

DmIdle ==
    /\ dm_index = [bytes |-> <<>>, wellformed |-> FALSE, first |-> <<>>]
    /\ dm_name = <<>>
    /\ dm_n = 0
    /\ dm_pos = 0
    /\ dm_offset = [flags |-> 0, off |-> 0]
    /\ dm_path = <<"unset">>
    /\ dm_len = 0
    /\ dm_err = "none"
    /\ dm_why = ""
    /\ dm_nodes = 0
    /\ dm_pc = "idle"

(***************************************************************************)
(* The loaded-module iterator (struct kernel_module_iterator).  The live   *)
(* backend reads the lines of /proc/modules; the kernel-walk backend       *)
(* follows the list `modules` of the target with typed reads.              *)
(***************************************************************************)
VARIABLES
    it_target,  \* what the iterator reads: the file's lines or the target's module list
    it,         \* struct kernel_module_iterator: modules_file (and the position and
                \* error indicator of the stream), name, start, end, node
    it_err,     \* the error kind the last call returned ("none" for NULL, "stop")
    it_calls,   \* number of kernel_module_iterator_next calls made
    it_pc       \* "idle", "init", "iter", "done"

it_vars == <<it_target, it, it_err, it_calls, it_pc>>

RECURSIVE SkipWord(_, _)
SkipWord(s, i) ==
    IF IsSpace(At(s, i)) \/ At(s, i) = NUL THEN i ELSE SkipWord(s, i + 1)

\* the directive " %*s" of sscanf from index i: the index behind the word,
\* 0 when the input ends before a word (or has ended before, i = 0)
ScanWord(s, i) ==
    IF i = 0 \/ At(s, SkipSpace(s, i)) = NUL THEN 0
    ELSE SkipWord(s, SkipSpace(s, i))

\* what sscanf returns and stores, given its first conversion r1, the index
\* w3 behind the three skipped words and its second conversion r2
SscanfResult(i, r1, w3, r2) ==
    IF r1.end = i THEN [n |-> 0, end |-> U64Zero, start |-> U64Zero]
    ELSE IF w3 = 0 \/ r2.end = w3
         THEN [n |-> 1, end |-> r1.value, start |-> U64Zero]
    ELSE [n |-> 2, end |-> r1.value, start |-> r2.value]

SscanfAddress(s, i, r1, w3) == SscanfResult(i, r1, w3, strtoull(s, w3, 16))

SscanfWords(s, i, r1) ==
    SscanfAddress(s, i, r1,
                  IF r1.end = i THEN 0
                  ELSE ScanWord(s, ScanWord(s, ScanWord(s, r1.end))))

\* sscanf(p + 1, "%" SCNu64 " %*s %*s %*s %" SCNx64, &it->end, &it->start),
\* p + 1 being index i of s: the number of conversions stored and the values
sscanf_proc_modules(s, i) == SscanfWords(s, i, strtoull(s, i, 10))

\* it->end += it->start
kernel_module_iterator_end(size, start) == U64Add(size, start)

\* lines 443-452, for the line read, the index p of its first space (0 for
\* none) and the result r of sscanf
NextLiveParsed(got, line, p, r) ==
    IF p = 0 THEN [it |-> got, err |-> "OTHER"]
    ELSE IF r.n # 2
         THEN [it |-> IF r.n = 1 THEN [got EXCEPT !.end = r.end] ELSE got,
               err |-> "OTHER"]
    ELSE [it |-> [got EXCEPT !.name = SubSeq(line, 1, p - 1),
                             !.start = r.start,
                             !.end = kernel_module_iterator_end(r.end, r.start)],
          err |-> "none"]

NextLiveLine(i, line, p) ==
    NextLiveParsed([i EXCEPT !.fpos = i.fpos + 1, !.name = line], line, p,
                   sscanf_proc_modules(line, p + 1))

\* kernel_module_iterator_next_live(it): the iterator afterwards and the error.
\* A read that fails sets errno and the error indicator of modules_file; on a
\* stream whose error indicator is set getline returns -1 and leaves errno
\* as line 432 set it, 0, so the call returns &drgn_stop (lines 433-441).
\* On a last line without a newline getline reads on for the end of the
\* line: when that read fails it returns the line all the same and the
\* stream keeps the error indicator
kernel_module_iterator_next_live(i, t) ==
    IF i.ferror THEN [it |-> i, err |-> "stop"]
    ELSE IF t.read_err = i.fpos + 1
    THEN [it |-> [i EXCEPT !.ferror = TRUE], err |-> "OS"]
    ELSE IF i.fpos >= Len(t.lines) THEN [it |-> i, err |-> "stop"]
    ELSE NextLiveLine([i EXCEPT !.ferror =
                          /\ At(t.lines[i.fpos + 1], Len(t.lines[i.fpos + 1])) # "\n"
                          /\ t.read_err = i.fpos + 2],
                      t.lines[i.fpos + 1], strchr(t.lines[i.fpos + 1], 1, " "))

\* the error kind of one typed access of the kernel-walk step on module k:
\* the fault the target injects there, or the LOOKUP of a member that the
\* target's struct module does not have
WalkAccess(t, k, a) ==
    IF t.fail.at = a /\ t.fail.idx = k THEN t.fail.kind
    ELSE IF a = "core_layout" /\ t.legacy THEN "LOOKUP"
    ELSE IF a \in {"core_size", "module_core"} /\ ~t.legacy THEN "LOOKUP"
    ELSE "none"

\* the step falls back to module_core and core_size on any error of the
\* access to core_layout
kernel_module_iterator_layout_AnyError(t, k) ==
    LET e == WalkAccess(t, k, "core_layout")
    IN  IF e = "none"
        THEN IF WalkAccess(t, k, "size") # "none" THEN WalkAccess(t, k, "size")
             ELSE WalkAccess(t, k, "base")
        ELSE IF WalkAccess(t, k, "core_size") # "none"
             THEN WalkAccess(t, k, "core_size")
             ELSE WalkAccess(t, k, "module_core")

\* lines 492-520: tmp1 and tmp2 are set to the module's base and size
kernel_module_iterator_layout(t, k) ==
    LET e == WalkAccess(t, k, "core_layout")
    IN  IF e = "none"
        THEN IF WalkAccess(t, k, "size") # "none" THEN WalkAccess(t, k, "size")
             ELSE WalkAccess(t, k, "base")
        ELSE IF e = "LOOKUP"
        THEN IF WalkAccess(t, k, "core_size") # "none"
             THEN WalkAccess(t, k, "core_size")
             ELSE WalkAccess(t, k, "module_core")
        ELSE e

\* kernel_module_iterator_next(it): the iterator afterwards and the error
kernel_module_iterator_next(i, t) ==
    IF i.modules_file # "NULL" THEN kernel_module_iterator_next_live(i, t)
    ELSE
    LET k == (i.node + 1) % (Len(t.mods) + 1)
        m == t.mods[k]
        at_node == [i EXCEPT !.node = k]
        at_start == [at_node EXCEPT !.start = m.base]
        at_end == [at_start EXCEPT !.end = kernel_module_iterator_end(m.size, m.base)]
    IN  IF WalkAccess(t, k, "next") # "none"
        THEN [it |-> i, err |-> WalkAccess(t, k, "next")]
        ELSE IF k = 0 THEN [it |-> at_node, err |-> "stop"]
        ELSE IF WalkAccess(t, k, "list") # "none"
        THEN [it |-> at_node, err |-> WalkAccess(t, k, "list")]
        ELSE IF kernel_module_iterator_layout(t, k) # "none"
        THEN [it |-> at_node, err |-> kernel_module_iterator_layout(t, k)]
        ELSE IF WalkAccess(t, k, "read_base") # "none"
        THEN [it |-> at_node, err |-> WalkAccess(t, k, "read_base")]
        ELSE IF WalkAccess(t, k, "read_size") # "none"
        THEN [it |-> at_start, err |-> WalkAccess(t, k, "read_size")]
        ELSE IF WalkAccess(t, k, "name") # "none"
        THEN [it |-> at_end, err |-> WalkAccess(t, k, "name")]
        ELSE [it |-> [at_end EXCEPT !.name = m.name], err |-> "none"]

\* the fields of the iterator that kernel_module_iterator_init leaves unset
ItUnset ==
    [modules_file |-> "NULL", fpos |-> 0, ferror |-> FALSE, node |-> 0,
     name |-> <<>>, start |-> "unset", end |-> "unset"]

\* kernel_module_iterator_init(it, prog, use_proc_and_sys)
kernel_module_iterator_init(t) ==
    IF t.init_err # "none" THEN [it |-> ItUnset, err |-> t.init_err]
    ELSE [it |-> [ItUnset EXCEPT !.modules_file = IF t.live THEN "open" ELSE "NULL"],
          err |-> "none"]

it_init ==
    /\ it_pc = "init"
    /\ LET r == kernel_module_iterator_init(it_target)
       IN  /\ it' = r.it
           /\ it_err' = r.err
           /\ it_pc' = IF r.err = "none" THEN "iter" ELSE "done"
    /\ UNCHANGED <<it_target, it_calls>>

it_next ==
    /\ it_pc = "iter"
    /\ it_calls < Len(it_target.lines) + Len(it_target.mods) + 2
    /\ LET r == kernel_module_iterator_next(it, it_target)
       IN  /\ it' = r.it
           /\ it_err' = r.err
    /\ it_calls' = it_calls + 1
    /\ UNCHANGED <<it_target, it_pc>>

\* kernel_module_iterator_deinit(it)
it_deinit ==
    /\ it_pc = "iter"
    /\ it_calls > 0
    /\ it' = [it EXCEPT !.modules_file = "NULL", !.name = <<>>]
    /\ it_pc' = "done"
    /\ UNCHANGED <<it_target, it_err, it_calls>>

(***************************************************************************)
(* Targets for the iterator: up to MaxMods modules, named by position,     *)
(* with bases at the bottom, in the module area and at the very top of the *)
(* address space.                                                          *)
(***************************************************************************)
MaxMods == 2

ModName(k) == <<"m", <<"1", "2", "3", "4">>[k]>>

KernelBase == <<0, 49152, Limb - 1, Limb - 1>>

ModBases == {U64(4096), KernelBase, U64Max}

ModSizes == {U64(2), U64(16384)}

Digits16384 == <<"1", "6", "3", "8", "4">>

SizeTokens == {<<"2">>, Digits16384}

AddrTokens ==
    {<<"0", "x", "1", "0", "0", "0">>,
     <<"0", "x">> \o [k \in 1..8 |-> "f"] \o <<"c">> \o [k \in 1..7 |-> "0"],
     <<"0", "x">> \o [k \in 1..16 |-> "f"]}

ProcLine(name, size, addr) ==
    name \o <<" ">> \o size \o <<" ", "1", " ", "-", " ", "L", " ">> \o addr \o <<"\n">>

\* the kinds of line of /proc/modules: well-formed with a size and an
\* address, without any field, without an address, with a size or an
\* address that is no number, with a NUL byte before the first space
LineKinds ==
    (SizeTokens \X AddrTokens)
        \cup {<<"bare">>, <<"short">>, <<"size">>, <<"addr">>, <<"nul">>}

ProcLineOf(k, kind) ==
    IF kind = <<"bare">> THEN ModName(k) \o <<"\n">>
    ELSE IF kind = <<"nul">>
    THEN ProcLine(Append(ModName(k), NUL), <<"2">>, <<"1", "0">>)
    ELSE IF kind = <<"short">>
    THEN ModName(k) \o <<" ", "2", " ", "1", " ", "-", "\n">>
    ELSE IF kind = <<"size">> THEN ProcLine(ModName(k), <<"x">>, <<"0">>)
    ELSE IF kind = <<"addr">> THEN ProcLine(ModName(k), <<"2">>, <<"z">>)
    ELSE ProcLine(ModName(k), kind[1], kind[2])

WalkAccesses ==
    {"next", "list", "core_layout", "size", "base", "core_size", "module_core",
     "read_base", "read_size", "name"}

NoFail == [at |-> "none", idx |-> 0, kind |-> "none"]

\* /proc/modules of up to MaxMods lines, the read for line read_err failing
\* (0: none does); as in any file, only the last line can lack its newline
LiveTargets ==
    {[live |-> TRUE, init_err |-> "none",
      lines |-> [k \in 1..Len(q) |-> ProcLineOf(k, q[k])], read_err |-> r,
      mods |-> <<>>, legacy |-> FALSE, fail |-> NoFail] :
        q \in SeqsUpTo(LineKinds, MaxMods), r \in 0..MaxMods}
    \cup {[live |-> TRUE, init_err |-> "none",
           lines |-> Append([k \in 1..Len(q) |-> ProcLineOf(k, q[k])],
                            ModName(Len(q) + 1)
                                \o <<" ", "2", " ", "1", " ", "-", " ", "L", " ",
                                      "0", "x", "1", "0", "0", "0">>),
           read_err |-> r, mods |-> <<>>, legacy |-> FALSE, fail |-> NoFail] :
              q \in SeqsUpTo(LineKinds, MaxMods - 1), r \in 0..MaxMods}
    \cup {[live |-> TRUE, init_err |-> "OS", lines |-> <<>>, read_err |-> 0,
           mods |-> <<>>, legacy |-> FALSE, fail |-> NoFail]}

WalkFails ==
    {NoFail} \cup [at : WalkAccesses, idx : 0..MaxMods, kind : {"LOOKUP", "FAULT"}]

WalkTargets ==
    {[live |-> FALSE, init_err |-> "none", lines |-> <<>>, read_err |-> 0,
      mods |-> [k \in 1..Len(q) |->
                   [name |-> ModName(k), base |-> q[k][1], size |-> q[k][2]]],
      legacy |-> l, fail |-> f] :
        q \in SeqsUpTo(ModBases \X ModSizes, MaxMods), l \in BOOLEAN, f \in WalkFails}
    \cup {[live |-> FALSE, init_err |-> "LOOKUP", lines |-> <<>>, read_err |-> 0,
           mods |-> <<>>, legacy |-> FALSE, fail |-> NoFail]}

IterTargets == LiveTargets \cup WalkTargets

ItInit ==
    /\ it_target \in IterTargets
    /\ it = ItUnset
    /\ it_err = "none"
    /\ it_calls = 0
    /\ it_pc = "init"

ItIdle ==
    /\ it_target = <<>>
    /\ it = ItUnset
    /\ it_err = "none"
    /\ it_calls = 0
    /\ it_pc = "idle"

(***************************************************************************)
(* The discovery run, linux_kernel_report_debug_info.  The indexer         *)
(* (report_elf, report_error, flush, is_indexed), the ELF library and the  *)
(* file system are its environment: what they answer is chosen where the   *)
(* run asks them.                                                          *)
(***************************************************************************)
VARIABLES
    ld_in,      \* load: the files behind paths[], load_main, load_default; prog: live, env;
                \* mods: the modules loaded in the target
    ld_pc,      \* the statement the run is at
    ld_i,       \* the loop variable i of the loop it is in
    ld_err,     \* err, returned when ld_pc = "done"
    ld_files,   \* every file the run has opened: path, times closed, times handed over
    ld_kmods,   \* kmods[]: path, fd, elf, gnu_build_id, next
    ld_table,   \* kmod_table: build ID |-> first file of its chain (0: no entry)
    ld_flags,   \* vmlinux_is_pending, use_proc_and_sys; enomem: the allocations that
                \* failed in the latest step that worked on the run's data
    ld_depmod,  \* depmod (addr), the pointer the iteration holds to it, and what was done
                \* with it: calls of depmod_index_init and depmod_index_find, mmaps, munmaps
    ld_it,      \* kmod_it: its lifecycle, whether modules_file is set, and the number n of
                \* modules it has emitted; sects: for the section iterators that were
                \* initialised, whether sections_dir was set; what
                \* report_loaded_kernel_modules returned
    ld_reports  \* the calls made to the indexer, in order

ld_vars ==
    <<ld_in, ld_pc, ld_i, ld_err, ld_files, ld_kmods, ld_table, ld_flags,
      ld_depmod, ld_it, ld_reports>>

\* the indexer of this step gives an out-of-memory error it is handed back
\* to its caller
FailsHard == -1

\* The run's data as one record w.  w.abort counts down to the indexer call
\* of the current step that answers with the fatal abort (0: none does;
\* FailsHard: none does, and an out-of-memory error reported to the indexer
\* comes back from it); w.flags.enomem counts the allocations that fail in
\* the step; w.ret is what the last callee returned.
LdWorld(abort) ==
    [in |-> ld_in, files |-> ld_files, kmods |-> ld_kmods, table |-> ld_table,
     flags |-> [ld_flags EXCEPT !.enomem = 0], depmod |-> ld_depmod, it |-> ld_it,
     reports |-> ld_reports, abort |-> abort, ret |-> "none"]

LdStore(w) ==
    /\ ld_files' = w.files
    /\ ld_kmods' = w.kmods
    /\ ld_table' = w.table
    /\ ld_flags' = w.flags
    /\ ld_depmod' = w.depmod
    /\ ld_it' = w.it
    /\ ld_reports' = w.reports
    /\ UNCHANGED ld_in

\* what the indexer answers to the call at hand
IndexerRet(w) == IF w.abort = 1 THEN "ABORT" ELSE "none"

IndexerCalled(w, call) ==
    [w EXCEPT !.reports = Append(@, call),
              !.ret = IndexerRet(w),
              !.abort = IF @ <= 0 THEN @ ELSE @ - 1]

\* drgn_debug_info_report_error(load, name, message, err): NULL, after which
\* the run continues, or the fatal abort
report_error(w, name, cause) ==
    IndexerCalled(w, [op |-> "error", name |-> name, cause |-> cause,
                      ret |-> IndexerRet(w)])

\* an allocation fails: the error at hand is &drgn_enomem
alloc_fails(w) == [w EXCEPT !.flags.enomem = @ + 1]

\* drgn_debug_info_report_error handed &drgn_enomem: the caller treats the
\* answer as that to any other report, NULL, after which the run continues,
\* or an error, the fatal abort or the out-of-memory error it passed in
report_error_enomem(w, name, cause) ==
    LET ret == IF w.abort = FailsHard THEN "ENOMEM" ELSE IndexerRet(w)
    IN  [w EXCEPT !.reports = Append(@, [op |-> "error", name |-> name,
                                         cause |-> cause, ret |-> ret]),
                  !.ret = ret,
                  !.abort = IF @ <= 0 THEN @ ELSE @ - 1]

\* drgn_debug_info_report_elf(load, path, fd, elf, start, end, name, new_ret):
\* on success the indexer owns fd and elf of file f, and is_new is what it
\* answers in *new_ret
report_elf_new(w, f, start, end, name, is_new) ==
    IndexerCalled([w EXCEPT !.files[f].moved =
                                IF IndexerRet(w) = "none" THEN @ + 1 ELSE @],
                  [op |-> "elf", file |-> f, path |-> w.files[f].path,
                   start |-> start, end |-> end, name |-> name,
                   new |-> is_new /\ IndexerRet(w) = "none",
                   ret |-> IndexerRet(w)])

\* the same with new_ret = NULL
report_elf(w, f, start, end, name) == report_elf_new(w, f, start, end, name, FALSE)

\* drgn_debug_info_report_flush(load)
report_flush(w) == IndexerCalled(w, [op |-> "flush", ret |-> IndexerRet(w)])

\* sh_addr of the file's sections are those of the file on disk
NotPatched == -1

\* open_elf_file / find_elf_file succeeded: the run owns a new file
open_file(w, path) ==
    [w EXCEPT !.files = Append(@, [path |-> path, closed |-> 0, moved |-> 0,
                                   patched |-> NotPatched])]

\* the file f is left as it was opened
cache_kernel_module_sections_Skipped(w, f) == w

\* cache_kernel_module_sections(kmod_it, elf) returned NULL for the file f,
\* the indexer having been called Len(w.reports) times by then
cache_kernel_module_sections(w, f) ==
    [w EXCEPT !.files[f].patched = Len(w.reports)]

LastFile(w) == Len(w.files)

\* elf_end(elf); close(fd);
close_file(w, f) == [w EXCEPT !.files[f].closed = @ + 1]

\* names and paths are strings of characters: paths[p - 1], the path that
\* find_elf_file finds for vmlinux and for the k-th module, the name "kernel"
\* and the name NULL
PathName(p) == <<"p", <<"1", "2", "3", "4">>[p]>>

VmlinuxPath == <<"v">>

KoPath(k) == <<"k", <<"1", "2", "3", "4">>[k]>>

KernelName == <<"k", "e", "r", "n", "e", "l">>

NoName == <<"N", "U", "L", "L">>

ModulesName == <<"k", "e", "r", "n", "e", "l", " ", "m", "o", "d", "u", "l", "e", "s">>

\* what malloc_array leaves in a field of kmods[] that was never assigned
Uninit == -2

\* the address range of a vmlinux and of the k-th module of the target
KernelRange == <<1, 9>>

ModRange(k) == <<16 * k, 16 * k + 8>>

\* lines 1696-1702 and 1623-1624: vmlinux file f is reported; a new one is pending
report_vmlinux_elf(w, f, is_new) ==
    LET r == report_elf_new(w, f, KernelRange[1], KernelRange[2], KernelName, is_new)
    IN  IF r.ret = "none" /\ is_new
        THEN [r EXCEPT !.flags.vmlinux_is_pending = TRUE]
        ELSE r

\* lines 1656-1708 for path p, the file d being of kind d.kind
report_path_kind(w, p, d) ==
    IF d.kind = "noent" THEN report_error(w, PathName(p), "open")
    ELSE IF d.kind = "badelf"
    THEN close_file(report_error(open_file(w, PathName(p)), PathName(p), "libelf"),
                    LastFile(w) + 1)
    ELSE IF d.kind = "module"
    THEN [open_file(w, PathName(p)) EXCEPT
            !.kmods = Append(@, [path |-> p, file |-> LastFile(w) + 1,
                                 fd |-> "open", elf |-> "open",
                                 gnu_build_id |-> Uninit, next |-> Uninit])]
    ELSE IF d.kind = "vmlinux_norange"
    THEN report_error(close_file(open_file(w, PathName(p)), LastFile(w) + 1),
                      PathName(p), "range")
    ELSE IF d.kind \in {"vmlinux_new", "vmlinux_old"}
    THEN report_vmlinux_elf(open_file(w, PathName(p)), LastFile(w) + 1,
                            d.kind = "vmlinux_new")
    ELSE report_elf(open_file(w, PathName(p)), LastFile(w) + 1, 0, 0, NoName)

\* the section names identify_kernel_elf looks for, and another one
ThisModule == ".gnu.linkonce.this_module"

InitText == ".init.text"

ScnNames == {ThisModule, InitText, ".text"}

\* the first of the two names decides
RECURSIVE identify_scan_FirstWins(_, _)
identify_scan_FirstWins(scns, i) ==
    IF i > Len(scns) THEN "other"
    ELSE IF ~scns[i].shdr THEN identify_scan_FirstWins(scns, i + 1)
    ELSE IF ~scns[i].strptr THEN "error"
    ELSE IF scns[i].name = ThisModule THEN "module"
    ELSE IF scns[i].name = InitText THEN "vmlinux"
    ELSE identify_scan_FirstWins(scns, i + 1)

\* lines 1169-1190: the loop over the sections from the i-th on, and what
\* follows it; a section is what gelf_getshdr (shdr) and elf_strptr (strptr)
\* answer for it, and its name
RECURSIVE identify_scan(_, _, _)
identify_scan(scns, i, have_init_text) ==
    IF i > Len(scns) THEN IF have_init_text THEN "vmlinux" ELSE "other"
    ELSE IF ~scns[i].shdr THEN identify_scan(scns, i + 1, have_init_text)
    ELSE IF ~scns[i].strptr THEN "error"
    ELSE IF scns[i].name = ThisModule THEN "module"
    ELSE identify_scan(scns, i + 1, have_init_text \/ scns[i].name = InitText)

identify_kernel_elf_FirstWins(elf) ==
    IF ~elf.shstrndx THEN "error" ELSE identify_scan_FirstWins(elf.scns, 1)

\* identify_kernel_elf(elf, &is_vmlinux, &is_module): "module", "vmlinux",
\* "other" (neither), or "error"
identify_kernel_elf(elf) ==
    IF ~elf.shstrndx THEN "error" ELSE identify_scan(elf.scns, 1, FALSE)

\* what the loop over load->paths does with the file d: a file given with
\* its sections ("elf") is identified (line 1665), a vmlinux among them being
\* d.vmlinux; of any other file it is given
PathKind(d) ==
    IF d.kind # "elf" THEN d.kind
    ELSE LET is == identify_kernel_elf(d)
         IN  IF is = "error" THEN "badelf"
             ELSE IF is = "vmlinux" THEN d.vmlinux
             ELSE is

\* lines 1652-1708: one iteration of the loop over load->paths, for path p
\* whose file is d
report_path(w, p, d) == report_path_kind(w, p, [d EXCEPT !.kind = PathKind(d)])

\* report_vmlinux(load, &vmlinux_is_pending), find_elf_file answering `found`
report_vmlinux(w, found) ==
    IF found = "err" THEN report_error(w, NoName, "find_elf_file")
    ELSE IF found = "enomem"
    THEN report_error_enomem(alloc_fails(w), NoName, "find_elf_file")
    ELSE IF found = "none" THEN report_error(w, KernelName, "OTHER")
    ELSE IF found = "vmlinux_norange"
    THEN close_file(report_error(open_file(w, VmlinuxPath), VmlinuxPath, "range"),
                    LastFile(w) + 1)
    ELSE report_vmlinux_elf(open_file(w, VmlinuxPath), LastFile(w) + 1,
                            found = "vmlinux_new")

\* kmods[k] put behind the last file of the chain of b instead
kernel_module_table_insert_AtTail(w, k, b) ==
    IF w.table[b] = 0
    THEN [w EXCEPT !.kmods[k].gnu_build_id = b, !.kmods[k].next = 0, !.table[b] = k]
    ELSE LET tail == CHOOSE j \in 1..Len(w.kmods) :
                        /\ w.kmods[j].gnu_build_id = b
                        /\ w.kmods[j].next = 0
         IN  [w EXCEPT !.kmods[k].gnu_build_id = b, !.kmods[k].next = 0,
                       !.kmods[tail].next = k]

\* lines 1532-1546: kmods[k], whose build ID is b, is put in front of the
\* chain of b (next = NULL, here 0, when b had no entry)
kernel_module_table_insert(w, k, b) ==
    [w EXCEPT !.kmods[k].gnu_build_id = b,
              !.kmods[k].next = w.table[b],
              !.table[b] = k]

\* lines 1518-1546: one iteration of the loop over kmods; b is what
\* dwelf_elf_gnu_build_id answers for the file
report_kernel_modules_insert(w, k, b, alloc_ok) ==
    IF b < 0 THEN report_error(w, PathName(w.kmods[k].path), "libelf")
    ELSE IF w.table[b] = 0 /\ ~alloc_ok
    THEN [alloc_fails(w) EXCEPT !.kmods[k].gnu_build_id = b, !.ret = "ENOMEM"]
    ELSE kernel_module_table_insert(w, k, b)

\* drgn_debug_info_report_elf for kmods[k], and the two assignments behind it
\* (lines 1331-1336, 1561-1565)
report_kmod(w, k, start, end, name) ==
    [report_elf(w, w.kmods[k].file, start, end, name) EXCEPT
        !.kmods[k].elf = "NULL", !.kmods[k].fd = "-1"]

\* kernel_module_section_iterator_init (lines 778-821): the section iterator
\* reads /sys/module/<name>/sections if kmod_it reads /proc/modules
kernel_module_section_iterator_init(w) ==
    [w EXCEPT !.it.sects = @ \cup {w.it.modules_file}]

\* lines 1320-1341: do { ... } while (kmod), from kmods[k] on, for module m.
\* cache_kernel_module_sections fails for a file with patch "enomem" (the
\* insertion into scn_map, line 1226) or "fail_pre" (libelf, lines 1202-1221)
\* before the section iterator is initialised, and with "fail" after it
RECURSIVE report_chain_loaded(_, _, _)
ReportChainLoadedNext(r, k, m) ==
    IF r.ret # "none" THEN r ELSE report_chain_loaded(r, r.kmods[k].next, m)

\* the loop is left after the first file whose sections cannot be patched
report_chain_loaded_StopsAtFailure(w, k, m) ==
    IF k = 0 THEN w
    ELSE IF w.in.paths[w.kmods[k].path].patch = "enomem"
    THEN report_error_enomem(alloc_fails(w), PathName(w.kmods[k].path), "sections")
    ELSE IF w.in.paths[w.kmods[k].path].patch = "fail_pre"
    THEN report_error(w, PathName(w.kmods[k].path), "sections")
    ELSE IF w.in.paths[w.kmods[k].path].patch = "fail"
    THEN report_error(kernel_module_section_iterator_init(w),
                      PathName(w.kmods[k].path), "sections")
    ELSE ReportChainLoadedNext(
             report_kmod(cache_kernel_module_sections(
                             kernel_module_section_iterator_init(w), w.kmods[k].file),
                         k, m.start, m.end, m.name), k, m)

report_chain_loaded(w, k, m) ==
    IF k = 0 THEN w
    ELSE IF w.in.paths[w.kmods[k].path].patch = "enomem"
    THEN ReportChainLoadedNext(
             report_error_enomem(alloc_fails(w), PathName(w.kmods[k].path),
                                 "sections"), k, m)
    ELSE IF w.in.paths[w.kmods[k].path].patch = "fail_pre"
    THEN ReportChainLoadedNext(
             report_error(w, PathName(w.kmods[k].path), "sections"), k, m)
    ELSE IF w.in.paths[w.kmods[k].path].patch = "fail"
    THEN ReportChainLoadedNext(
             report_error(kernel_module_section_iterator_init(w),
                          PathName(w.kmods[k].path), "sections"), k, m)
    ELSE ReportChainLoadedNext(
             report_kmod(cache_kernel_module_sections(
                             kernel_module_section_iterator_init(w), w.kmods[k].file),
                         k, m.start, m.end, m.name), k, m)

\* what kernel_module_iterator_gnu_build_id answers when its buffer or the
\* path it reads from cannot be allocated (lines 598, 628, 740)
NoMem == -3

\* the entry of the build ID b stays in the map
kernel_module_table_delete_Kept(w, b) == w

\* kernel_module_table_delete_iterator_hashed(kmod_table, it, hp) and
\* kernel_module_table_delete_iterator(&kmod_table, it) on the entry of b
kernel_module_table_delete(w, b) == [w EXCEPT !.table[b] = 0]

\* the chain of the module's build ID is reported and its entry stays in the map
report_loaded_kernel_module_KeepsEntry(w, m) ==
    IF m.build_id = NoMem
    THEN report_error_enomem(alloc_fails(w), m.name, "build_id")
    ELSE IF m.build_id <= 0 THEN report_error(w, m.name, "build_id")
    ELSE IF w.table[m.build_id] = 0 THEN [w EXCEPT !.ret = "not_found"]
    ELSE report_chain_loaded(w, w.table[m.build_id], m)

\* report_loaded_kernel_module(load, kmod_it, kmod_table) for the module m
\* the iterator stands on; m.build_id is what
\* kernel_module_iterator_gnu_build_id answers (-1: an error, 0: length 0)
report_loaded_kernel_module(w, m) ==
    IF m.build_id = NoMem
    THEN report_error_enomem(alloc_fails(w), m.name, "build_id")
    ELSE IF m.build_id <= 0 THEN report_error(w, m.name, "build_id")
    ELSE IF w.table[m.build_id] = 0 THEN [w EXCEPT !.ret = "not_found"]
    ELSE report_chain_loaded(kernel_module_table_delete(w, m.build_id),
                             w.table[m.build_id], m)

\* report_default_kernel_module(load, kmod_it, depmod); `how` says how far it
\* gets: what depmod_index_find, find_elf_file and
\* cache_kernel_module_sections answer
report_default_kernel_module(w, m, how) ==
    IF how = "find_error"
    THEN report_error([w EXCEPT !.depmod.find_failed = TRUE], ModulesName, "depmod")
    ELSE IF how = "find_none" THEN report_error(w, m.name, "not in depmod")
    ELSE IF how = "elf_error" THEN report_error(w, NoName, "find_elf_file")
    ELSE IF how = "elf_enomem"
    THEN report_error_enomem(alloc_fails(w), NoName, "find_elf_file")
    ELSE IF how = "elf_none" THEN report_error(w, m.name, "no .ko")
    ELSE IF how = "patch_fail_pre"
    THEN close_file(report_error(open_file(w, KoPath(m.k)), KoPath(m.k), "sections"),
                    LastFile(w) + 1)
    ELSE IF how = "patch_fail"
    THEN close_file(report_error(
                        kernel_module_section_iterator_init(open_file(w, KoPath(m.k))),
                        KoPath(m.k), "sections"),
                    LastFile(w) + 1)
    ELSE IF how = "patch_enomem"
    THEN close_file(report_error_enomem(alloc_fails(open_file(w, KoPath(m.k))),
                                        KoPath(m.k), "sections"),
                    LastFile(w) + 1)
    ELSE report_elf(cache_kernel_module_sections(
                        kernel_module_section_iterator_init(open_file(w, KoPath(m.k))),
                        LastFile(w) + 1),
                    LastFile(w) + 1, m.start, m.end, m.name)

DefaultHows ==
    {"find_error", "find_none", "elf_error", "elf_enomem", "elf_none",
     "patch_fail_pre", "patch_fail", "patch_enomem", "reported"}

\* the ways depmod_index_init fails (lines 1019-1045)
DepmodInitErrors == {"init_open", "init_size", "init_invalid"}

\* depmod_index_init returns an error: before mmap, an OS error
\* ("init_open") or &drgn_enomem for a size that mmap cannot take
\* ("init_size", line 1030), or after the validation failed ("init_invalid")
\* and depmod_index_deinit unmapped the file, depmod->addr still pointing to
\* where it was
depmod_index_init_error(w, how) ==
    [w EXCEPT !.depmod.inits = @ + 1, !.depmod.init_failed = TRUE,
              !.depmod.maps = IF how = "init_invalid" THEN @ + 1 ELSE @,
              !.depmod.unmaps = IF how = "init_invalid" THEN @ + 1 ELSE @,
              !.depmod.addr = IF how = "init_invalid" THEN "unmapped" ELSE @]

\* depmod->addr left as depmod_index_init left it
depmod_addr_reset_Missing(w) == w

\* line 1461: depmod->addr = NULL
depmod_addr_reset(w) == [w EXCEPT !.depmod.addr = "NULL"]

\* depmod_index_init fails and depmod stays in use
depmod_index_init_failed_NotRemembered(w, how) ==
    IF how = "init_size"
    THEN report_error_enomem(depmod_addr_reset(depmod_index_init_error(w, how)),
                             ModulesName, "depmod init")
    ELSE report_error(depmod_addr_reset(depmod_index_init_error(w, how)),
                      ModulesName, "depmod init")

\* lines 1458-1470 when depmod_index_init fails
depmod_index_init_failed(w, how) ==
    LET failed == depmod_addr_reset(depmod_index_init_error(w, how))
        r == IF how = "init_size"
             THEN report_error_enomem(failed, ModulesName, "depmod init")
             ELSE report_error(failed, ModulesName, "depmod init")
    IN  IF r.ret = "none" THEN [r EXCEPT !.depmod.ptr = FALSE] ELSE r

\* depmod_index_init succeeds: the index is mapped
depmod_index_init(w) ==
    [w EXCEPT !.depmod.addr = "mapped", !.depmod.inits = @ + 1, !.depmod.maps = @ + 1]

\* lines 1455-1476 for module m, not reported explicitly, with depmod non-NULL
report_loaded_kernel_modules_default(w, m, how) ==
    IF how = "indexed" THEN [w EXCEPT !.ret = "none"]
    ELSE IF how \in DepmodInitErrors
    THEN depmod_index_init_failed([w EXCEPT !.ret = "none"], how)
    ELSE report_default_kernel_module(
             [(IF w.depmod.addr = "NULL" THEN depmod_index_init(w) ELSE w)
                 EXCEPT !.depmod.finds = @ + 1, !.ret = "none"],
             m, how)

\* what can happen in lines 1455-1476 for module m
DefaultCases(w, m) ==
    IF m.indexed THEN {"indexed"}
    ELSE DefaultHows
         \cup (IF w.depmod.addr = "NULL" THEN DepmodInitErrors ELSE {})

\* kmods[k] reported without a name
report_unloaded_NoName(w, k) == report_kmod(w, k, 0, 0, NoName)

\* lines 1561-1565: kmods[k], not loaded, is reported under its path
report_unloaded(w, k) == report_kmod(w, k, 0, 0, PathName(w.kmods[k].path))

\* lines 1557-1569: do { ... } while (kmod) over a chain that was not loaded
RECURSIVE report_chain_unloaded(_, _)
ReportChainUnloadedNext(r, k) ==
    IF r.ret # "none" THEN r ELSE report_chain_unloaded(r, r.kmods[k].next)

report_chain_unloaded(w, k) ==
    IF k = 0 THEN w
    ELSE ReportChainUnloadedNext(report_unloaded(w, k), k)

\* lines 1720-1724: what is still in kmods[] is closed
close_kmods(files, kmods) ==
    [f \in DOMAIN files |->
        IF \E k \in DOMAIN kmods : kmods[k].file = f /\ kmods[k].fd = "open"
        THEN [files[f] EXCEPT !.closed = @ + 1]
        ELSE files[f]]

\* atoi(env) != 0.  atoi is (int)strtol(env, NULL, 10): the digits are
\* converted as by strtoull, a value beyond long is replaced by LONG_MAX or
\* LONG_MIN, and the result is cut to its low 32 bits
atoi_nonzero(env) ==
    LET i0 == SkipSpace(env, 1)
        neg == At(env, i0) = "-"
        i1 == IF At(env, i0) \in {"-", "+"} THEN i0 + 1 ELSE i0
        d == StrtoullDigits(env, i1, 10, U64Zero, FALSE)
    IN  IF d.end = i1 THEN FALSE
        ELSE IF d.over \/ d.val[4] >= Limb \div 2 THEN ~neg
        ELSE d.val[1] # 0 \/ d.val[2] # 0

\* the fast path taken whatever DRGN_PROGRAM_IS_LIVE says
use_proc_and_sys_EnvOnly(prog) == ~prog.env.set \/ atoi_nonzero(prog.env.value)

\* lines 1498-1502
use_proc_and_sys(prog) == prog.live /\ (~prog.env.set \/ atoi_nonzero(prog.env.value))

\* a step of the run ends: its effects are stored, and the run goes on at
\* `next`, or at `bail` with the error the step ended with
LdGoto(r, next, bail) ==
    /\ LdStore(r)
    /\ ld_err' = IF r.ret = "not_found" THEN "none" ELSE r.ret
    /\ ld_pc' = IF r.ret \in {"none", "not_found"} THEN next ELSE bail

\* lines 1635-1650
report_debug_info_begin ==
    /\ ld_pc = "call"
    /\ \E alloc_ok \in BOOLEAN :
          /\ alloc_ok \/ Len(ld_in.paths) > 0
          /\ ld_pc' = IF ~alloc_ok THEN "done"
                      ELSE IF Len(ld_in.paths) > 0 THEN "paths" ELSE "main"
          /\ ld_err' = IF alloc_ok THEN "none" ELSE "ENOMEM"
          /\ ld_flags' = [ld_flags EXCEPT !.enomem = IF alloc_ok THEN @ ELSE @ + 1]
    /\ ld_i' = 1
    /\ UNCHANGED <<ld_in, ld_files, ld_kmods, ld_table, ld_depmod, ld_it, ld_reports>>

\* lines 1651-1709, one path
report_debug_info_path ==
    /\ ld_pc = "paths"
    /\ \E abort \in 0..1 :
          LdGoto(report_path(LdWorld(abort), ld_i, ld_in.paths[ld_i]),
                 IF ld_i = Len(ld_in.paths) THEN "main" ELSE "paths", "out")
    /\ ld_i' = ld_i + 1

\* lines 1711-1716
report_debug_info_main ==
    /\ ld_pc = "main"
    /\ \/ /\ ~(ld_in.load_main /\ ~ld_flags.vmlinux_is_pending)
          /\ LdGoto(LdWorld(0), "kmods", "out")
       \/ /\ ld_in.load_main /\ ~ld_flags.vmlinux_is_pending
          /\ \/ LdGoto(LdWorld(0), "kmods", "out")
             \/ \E found \in {"err", "enomem", "none", "vmlinux_norange",
                              "vmlinux_new", "vmlinux_old"},
                   abort \in FailsHard..1 :
                   LdGoto(report_vmlinux(LdWorld(abort), found), "kmods", "out")
    /\ UNCHANGED ld_i

\* report_kernel_modules, lines 1490-1516
report_kernel_modules_begin ==
    /\ ld_pc = "kmods"
    /\ IF Len(ld_kmods) = 0 /\ ~ld_in.load_default
       THEN LdGoto(LdWorld(0), "out", "out")
       ELSE LET w == [LdWorld(0) EXCEPT
                        !.flags.use_proc_and_sys = use_proc_and_sys(ld_in.prog),
                        !.depmod.ptr = ld_in.load_default]
                next == IF Len(ld_kmods) > 0 THEN "insert" ELSE "iter_init"
            IN  IF ld_flags.vmlinux_is_pending /\ ~use_proc_and_sys(ld_in.prog)
                THEN \E abort \in 0..1 :
                        LdGoto(report_flush([w EXCEPT !.abort = abort]), next, "out")
                ELSE LdGoto(w, next, "out")
    /\ ld_i' = 1

\* report_kernel_modules, lines 1517-1547, one file
report_kernel_modules_table ==
    /\ ld_pc = "insert"
    /\ \E alloc_ok \in BOOLEAN, abort \in 0..1 :
          LdGoto(report_kernel_modules_insert(
                     LdWorld(abort), ld_i,
                     ld_in.paths[ld_kmods[ld_i].path].build_id, alloc_ok),
                 IF ld_i = Len(ld_kmods) THEN "iter_init" ELSE "insert", "rkm_out")
    /\ ld_i' = ld_i + 1

\* report_loaded_kernel_modules returns what its last callee returned
\* (lines 1426-1428, 1478-1479)
report_loaded_kernel_modules_return(w) == [w EXCEPT !.it.returned = w.ret]

\* the iterator walks the kernel's list whatever use_proc_and_sys says
kmod_it_init_KernelWalk(w) ==
    [w EXCEPT !.it.state = "live", !.it.modules_file = FALSE]

\* kernel_module_iterator_init(&kmod_it, prog, use_proc_and_sys) succeeds
\* (lines 382-422): modules_file is set if use_proc_and_sys
kmod_it_init(w) ==
    [w EXCEPT !.it.state = "live", !.it.modules_file = w.flags.use_proc_and_sys]

\* report_loaded_kernel_modules, lines 1422-1429
report_loaded_kernel_modules_init ==
    /\ ld_pc = "iter_init"
    /\ \/ LdGoto(kmod_it_init(LdWorld(0)), "iter", "rkm_out")
       \/ \E abort \in 0..1 :
             LdGoto(report_loaded_kernel_modules_return(
                        report_error(LdWorld(abort), ModulesName, "iterator_init")),
                    "leftover", "rkm_out")
    /\ UNCHANGED ld_i

\* kernel_module_iterator_deinit(&kmod_it)
kmod_it_deinit(w) ==
    [w EXCEPT !.it.state = "dead", !.it.deinits = @ + 1]

\* the k-th module loaded in the target, as the iterator emits it, with what
\* reading its build ID answers and whether the indexer holds debug info
\* for its name
LdModule(k) ==
    [k |-> k, name |-> ModName(k), start |-> ModRange(k)[1], end |-> ModRange(k)[2],
     build_id |-> ld_in.mods[k].build_id, indexed |-> ld_in.mods[k].indexed]

\* lines 1440-1477 for module m; e is the run after the attempt to report m
\* explicitly
report_loaded_kernel_modules_module(e, m) ==
    IF e.ret = "not_found" /\ e.depmod.ptr
    THEN \E how \in DefaultCases(e, m) :
            LET r == report_loaded_kernel_modules_default(e, m, how)
            IN  LdGoto(IF r.ret = "none" THEN r
                       ELSE report_loaded_kernel_modules_return(kmod_it_deinit(r)),
                       "iter", "rkm_out")
    ELSE LdGoto(IF e.ret \in {"none", "not_found"} THEN e
                ELSE report_loaded_kernel_modules_return(kmod_it_deinit(e)),
                "iter", "rkm_out")

\* report_loaded_kernel_modules, lines 1430-1479, one iteration of for (;;)
report_loaded_kernel_modules_step ==
    /\ ld_pc = "iter"
    /\ \/ /\ ld_it.n = Len(ld_in.mods)
          /\ LdGoto(report_loaded_kernel_modules_return(kmod_it_deinit(LdWorld(0))),
                    "leftover", "rkm_out")
       \/ \E abort \in 0..1 :
             LdGoto(report_loaded_kernel_modules_return(
                        report_error(kmod_it_deinit(LdWorld(abort)), ModulesName,
                                     "iterator_next")),
                    "leftover", "rkm_out")
       \/ /\ ld_it.n < Len(ld_in.mods)
          /\ \E abort \in FailsHard..(Len(ld_kmods) + 1) :
                LET m == LdModule(ld_it.n + 1)
                    w == [LdWorld(abort) EXCEPT !.it.n = @ + 1]
                IN  report_loaded_kernel_modules_module(IF Len(ld_kmods) > 0
                                THEN report_loaded_kernel_module(w, m)
                                ELSE [w EXCEPT !.ret = "not_found"], m)
    /\ UNCHANGED ld_i

\* report_kernel_modules, lines 1556-1571: one entry of the table, in the
\* order of its hash
report_kernel_modules_leftover ==
    /\ ld_pc = "leftover"
    /\ IF \A b \in DOMAIN ld_table : ld_table[b] = 0
       THEN LdGoto(LdWorld(0), "rkm_out", "rkm_out")
       ELSE \E b \in DOMAIN ld_table, abort \in 0..Len(ld_kmods) :
               /\ ld_table[b] # 0
               /\ LdGoto(report_chain_unloaded(
                             kernel_module_table_delete(LdWorld(abort), b), ld_table[b]),
                         "leftover", "rkm_out")
    /\ UNCHANGED ld_i

\* report_kernel_modules, lines 1572-1576
report_kernel_modules_out ==
    /\ ld_pc = "rkm_out"
    /\ ld_depmod' = IF ld_depmod.addr # "NULL"
                    THEN [ld_depmod EXCEPT !.unmaps = @ + 1, !.addr = "unmapped"]
                    ELSE ld_depmod
    /\ ld_table' = [b \in DOMAIN ld_table |-> 0]
    /\ ld_pc' = "out"
    /\ UNCHANGED <<ld_in, ld_i, ld_err, ld_files, ld_kmods, ld_flags, ld_it,
                   ld_reports>>

\* lines 1719-1726
report_debug_info_out ==
    /\ ld_pc = "out"
    /\ ld_files' = close_kmods(ld_files, ld_kmods)
    /\ ld_pc' = "done"
    /\ UNCHANGED <<ld_in, ld_i, ld_err, ld_kmods, ld_table, ld_flags, ld_depmod,
                   ld_it, ld_reports>>

(***************************************************************************)
(* Load requests: up to MaxPaths paths; behind each a file that cannot be  *)
(* opened, is no ELF, is neither vmlinux nor module, is a vmlinux, or is a *)
(* module with a build ID (0: none, -1: unreadable) whose sections can or  *)
(* cannot be patched.                                                      *)
(***************************************************************************)
MaxPaths == 2

FileKinds ==
    {[kind |-> k, build_id |-> 0, patch |-> "ok"] :
        k \in {"noent", "badelf", "other", "vmlinux_new", "vmlinux_old",
               "vmlinux_norange"}}
    \cup {[kind |-> "module", build_id |-> b, patch |-> "ok"] : b \in -1..2}
    \cup {[kind |-> "module", build_id |-> 1, patch |-> p] :
              p \in {"fail_pre", "fail"}}

Progs ==
    {[live |-> FALSE, env |-> [set |-> FALSE, value |-> <<>>]],
     [live |-> TRUE, env |-> [set |-> FALSE, value |-> <<>>]],
     [live |-> TRUE, env |-> [set |-> TRUE, value |-> <<"0">>]]}

\* the modules loaded in the target: what reading the build ID of each
\* answers (-1: an error, 0: length 0) and whether the indexer already holds
\* debug info for its name
ModKinds == [build_id : -1..2, indexed : BOOLEAN]

\* the run as a whole is taken on targets of up to MaxLoaded modules
MaxLoaded == 1

LoadRequests ==
    [paths : SeqsUpTo(FileKinds, MaxPaths), load_main : BOOLEAN,
     load_default : BOOLEAN, prog : Progs, mods : SeqsUpTo(ModKinds, MaxLoaded)]

\* load requests of module files only, up to MaxChain of them, so that one
\* build ID can have a chain of MaxChain files
MaxChain == 3

ChainRequests ==
    [paths : SeqsUpTo({d \in FileKinds : d.kind = "module" /\ d.build_id > 0},
                      MaxChain),
     load_main : {FALSE}, load_default : BOOLEAN,
     prog : {[live |-> FALSE, env |-> [set |-> FALSE, value |-> <<>>]]},
     mods : SeqsUpTo({d \in ModKinds : d.build_id > 0 /\ ~d.indexed}, MaxMods)]

LdStart(pc) ==
    /\ ld_pc = pc
    /\ ld_i = 1
    /\ ld_err = "none"
    /\ ld_files = <<>>
    /\ ld_kmods = <<>>
    /\ ld_table = [b \in 0..2 |-> 0]
    /\ ld_flags = [vmlinux_is_pending |-> FALSE, use_proc_and_sys |-> FALSE,
                   enomem |-> 0]
    /\ ld_depmod = [addr |-> "NULL", ptr |-> FALSE, inits |-> 0, maps |-> 0,
                    unmaps |-> 0, finds |-> 0, init_failed |-> FALSE,
                    find_failed |-> FALSE]
    /\ ld_it = [state |-> "none", modules_file |-> FALSE, sects |-> {}, deinits |-> 0,
                n |-> 0, returned |-> "unset"]
    /\ ld_reports = <<>>

LdInit == ld_in \in LoadRequests /\ LdStart("call")

\* load requests of module files only, on targets of up to MaxMods modules
ModuleRequests ==
    [paths : SeqsUpTo({d \in FileKinds : d.kind = "module"}, MaxPaths),
     load_main : {FALSE}, load_default : BOOLEAN,
     prog : {[live |-> FALSE, env |-> [set |-> FALSE, value |-> <<>>]]},
     mods : SeqsUpTo(ModKinds, MaxMods)]

LdModulesInit == ld_in \in ModuleRequests /\ LdStart("call")

\* load requests of vmlinux and module files, for programs live or not with
\* DRGN_USE_PROC_AND_SYS_MODULES unset, "0" or "1"
FlushRequests ==
    [paths : SeqsUpTo({d \in FileKinds :
                          \/ d.kind \in {"vmlinux_new", "vmlinux_old"}
                          \/ d.kind = "module" /\ d.build_id = 1 /\ d.patch = "ok"},
                      MaxPaths),
     load_main : BOOLEAN, load_default : BOOLEAN,
     prog : [live : BOOLEAN,
             env : {[set |-> FALSE, value |-> <<>>], [set |-> TRUE, value |-> <<"0">>],
                    [set |-> TRUE, value |-> <<"1">>]}],
     mods : SeqsUpTo({d \in ModKinds : d.build_id = 1 /\ d.indexed}, MaxLoaded)]

LdFlushInit == ld_in \in FlushRequests /\ LdStart("call")

\* load requests with files of one module, on targets of up to MaxMods
\* modules, so that modules are looked for at the standard locations
DefaultRequests ==
    [paths : SeqsUpTo({d \in FileKinds :
                          d.kind = "module" /\ d.build_id = 1 /\ d.patch = "ok"},
                      MaxPaths),
     load_main : {FALSE}, load_default : BOOLEAN,
     prog : {[live |-> FALSE, env |-> [set |-> FALSE, value |-> <<>>]]},
     mods : SeqsUpTo(ModKinds, MaxMods)]

LdDefaultInit == ld_in \in DefaultRequests /\ LdStart("call")

LdChainInit == ld_in \in ChainRequests /\ LdStart("call")

\* load requests with module files whose section-name map can or cannot be
\* allocated, on targets of up to MaxMods modules whose build ID can be read
\* or cannot for lack of memory
MemoryRequests ==
    [paths : SeqsUpTo({[kind |-> "module", build_id |-> 1, patch |-> p] :
                          p \in {"ok", "enomem"}},
                      MaxPaths),
     load_main : {FALSE}, load_default : BOOLEAN,
     prog : {[live |-> FALSE, env |-> [set |-> FALSE, value |-> <<>>]]},
     mods : SeqsUpTo([build_id : {NoMem, 1, 2}, indexed : {FALSE}], MaxMods)]

LdMemoryInit == ld_in \in MemoryRequests /\ LdStart("call")

\* load requests of files of every kind, on dump targets of up to MaxLoaded
\* modules whose build ID is that of the supplied module files
PathRequests ==
    [paths : SeqsUpTo(FileKinds, MaxPaths), load_main : {FALSE},
     load_default : BOOLEAN,
     prog : {[live |-> FALSE, env |-> [set |-> FALSE, value |-> <<>>]]},
     mods : SeqsUpTo({[build_id |-> 1, indexed |-> FALSE]}, MaxLoaded)]

LdPathsInit == ld_in \in PathRequests /\ LdStart("call")

LdIdle ==
    /\ ld_in = [paths |-> <<>>, load_main |-> FALSE, load_default |-> FALSE,
                prog |-> [live |-> FALSE, env |-> [set |-> FALSE, value |-> <<>>]],
                mods |-> <<>>]
    /\ LdStart("idle")

(***************************************************************************)
(* cache_kernel_module_sections: the section headers of one ELF file are   *)
(* patched with the addresses the section iterator of a loaded module      *)
(* yields.  libelf, the allocator and the section iterator are its         *)
(* environment: whether a call of theirs fails is chosen where it is made. *)
(***************************************************************************)
VARIABLES
    cs_in,      \* scns: the sections of elf (name, SHF_ALLOC); run: the (name, address) pairs
    cs_pc,      \* the statement the call is at
    cs_i,       \* the section elf_nextscn is at, then the pair section_it is at
    cs_map,     \* scn_map: name |-> section (0: no entry)
    cs_addr,    \* sh_addr of every section of elf
    cs_err,     \* err, returned when cs_pc = "done"
    cs_sect_it  \* section_it: whether it is initialised, and the calls of
                \* kernel_module_section_iterator_deinit on it

cs_vars == <<cs_in, cs_pc, cs_i, cs_map, cs_addr, cs_err, cs_sect_it>>

\* section_it before kernel_module_section_iterator_init
SectionItNone == [state |-> "none", deinits |-> 0]

\* section_it is left as it is on the way out
section_it_deinit_Missing(s) == s

\* out_section_it: kernel_module_section_iterator_deinit(&section_it)
section_it_deinit(s) == [s EXCEPT !.state = "dead", !.deinits = @ + 1]

\* names of sections
SectionNames == {<<"t">>, <<"d">>}

\* elf_scn_name_map_insert(&scn_map, &entry, NULL): an entry whose key the
\* map already holds is not inserted
elf_scn_name_map_insert(map, name, scn) ==
    IF map[name] # 0 THEN map ELSE [map EXCEPT ![name] = scn]

\* elf_scn_name_map_search(&scn_map, &name): the section of the entry, 0 for none
elf_scn_name_map_search(map, name) == map[name]

\* lines 1201-1205
cache_sections_begin ==
    /\ cs_pc = "call"
    /\ \E getshdrstrndx_ok \in BOOLEAN :
          /\ cs_pc' = IF ~getshdrstrndx_ok THEN "done"
                      ELSE IF Len(cs_in.scns) = 0 THEN "section_it" ELSE "scan"
          /\ cs_err' = IF getshdrstrndx_ok THEN "none" ELSE "libelf"
    /\ cs_i' = 1
    /\ cs_map' = [n \in SectionNames |-> 0]
    /\ UNCHANGED <<cs_in, cs_addr, cs_sect_it>>

\* the section scn goes into the map whatever its flags
cache_sections_insert_NoAllocTest(map, scn, alloc) ==
    elf_scn_name_map_insert(map, cs_in.scns[scn].name, scn)

\* the section scn goes into the map (lines 1215-1230)
cache_sections_insert(map, scn, alloc) ==
    IF ~alloc THEN map
    ELSE elf_scn_name_map_insert(map, cs_in.scns[scn].name, scn)

\* lines 1207-1231, one section
cache_sections_scan ==
    /\ cs_pc = "scan"
    /\ \E fail \in {"none", "gelf_getshdr", "elf_strptr", "insert"} :
          /\ fail \in {"elf_strptr", "insert"} => cs_in.scns[cs_i].alloc
          /\ cs_err' = IF fail = "none" THEN "none"
                       ELSE IF fail = "insert" THEN "ENOMEM" ELSE "libelf"
          /\ cs_pc' = IF fail # "none" THEN "done"
                      ELSE IF cs_i = Len(cs_in.scns) THEN "section_it" ELSE "scan"
          /\ cs_map' = IF fail # "none" THEN cs_map
                       ELSE cache_sections_insert(cs_map, cs_i, cs_in.scns[cs_i].alloc)
    /\ cs_i' = cs_i + 1
    /\ UNCHANGED <<cs_in, cs_addr, cs_sect_it>>

\* what kernel_module_section_iterator_init can return (lines 778-821): on
\* sections_dir &drgn_enomem when asprintf fails and the errno of opendir; on
\* the kernel walk the error of a typed access (sect_attrs, nsections, its
\* read, attrs)
SectionItInitReturns(s) ==
    {"none"} \cup (IF s.live THEN {"ENOMEM", "OS"} ELSE {"LOOKUP", "FAULT"})

\* lines 1233-1236
cache_sections_section_it ==
    /\ cs_pc = "section_it"
    /\ \E init \in SectionItInitReturns(cs_in.sect) :
          /\ cs_pc' = IF init = "none" THEN "patch" ELSE "done"
          /\ cs_err' = init
          /\ cs_sect_it' = IF init = "none"
                            THEN [cs_sect_it EXCEPT !.state = "live"]
                            ELSE cs_sect_it
    /\ cs_i' = 1
    /\ UNCHANGED <<cs_in, cs_map, cs_addr>>

\* the error kind of one typed access of the kernel-walk section step on
\* section k: the fault the target injects there, or the LOOKUP of a member
\* that the target's struct module_sect_attr does not have (battr before
\* v5.8, a name of its own since)
SectAccess(s, k, a) ==
    IF s.fail.at = a /\ s.fail.idx = k THEN s.fail.kind
    ELSE IF a = "battr" /\ s.legacy THEN "LOOKUP"
    ELSE IF a = "sect_name" /\ ~s.legacy THEN "LOOKUP"
    ELSE "none"

\* lines 911-926: tmp3 is set to the member that holds the section's name
kernel_module_section_iterator_name(s, k) ==
    LET e == SectAccess(s, k, "battr")
    IN  IF e = "none"
        THEN IF SectAccess(s, k, "attr") # "none" THEN SectAccess(s, k, "attr")
             ELSE SectAccess(s, k, "name")
        ELSE IF e # "LOOKUP" THEN e
        ELSE SectAccess(s, k, "sect_name")

\* kernel_module_section_iterator_next(it, &name, &address) with sections_dir
\* NULL, it->i being k - 1 and nsections n: the error
kernel_module_section_iterator_next(s, k, n) ==
    IF k > n THEN "stop"
    ELSE IF SectAccess(s, k, "subscript") # "none" THEN SectAccess(s, k, "subscript")
    ELSE IF SectAccess(s, k, "address") # "none" THEN SectAccess(s, k, "address")
    ELSE IF SectAccess(s, k, "read_address") # "none"
    THEN SectAccess(s, k, "read_address")
    ELSE IF kernel_module_section_iterator_name(s, k) # "none"
    THEN kernel_module_section_iterator_name(s, k)
    ELSE SectAccess(s, k, "read_name")

\* lines 1243-1256: the pair (name, address) is applied to the section scn
\* the map holds for name
cache_sections_apply(addr, scn, address) ==
    IF scn = 0 THEN addr ELSE [addr EXCEPT ![scn] = address]

\* the errors of kernel_module_section_iterator_next_live (lines 834-881):
\* the errno of readdir, fstatat, openat or fdopen, and the file that fscanf
\* cannot parse
SectionItLiveErrors == {"OS", "OTHER"}

\* lines 1239-1260, one call of kernel_module_section_iterator_next
cache_sections_patch ==
    /\ cs_pc = "patch"
    /\ \/ /\ cs_i > Len(cs_in.run)       \* &drgn_stop
          /\ cs_err' = "none"
          /\ cs_pc' = "done"
          /\ UNCHANGED cs_addr
       \/ /\ cs_in.sect.live           \* the iterator on sections_dir fails
          /\ cs_err' \in SectionItLiveErrors
          /\ cs_pc' = "done"
          /\ UNCHANGED cs_addr
       \/ /\ ~cs_in.sect.live          \* the kernel-walk iterator fails
          /\ cs_i <= Len(cs_in.run)
          /\ kernel_module_section_iterator_next(cs_in.sect, cs_i, Len(cs_in.run)) # "none"
          /\ cs_err' = kernel_module_section_iterator_next(cs_in.sect, cs_i,
                                                          Len(cs_in.run))
          /\ cs_pc' = "done"
          /\ UNCHANGED cs_addr
       \/ /\ cs_i <= Len(cs_in.run)
          /\ \/ cs_in.sect.live
             \/ kernel_module_section_iterator_next(cs_in.sect, cs_i,
                                                    Len(cs_in.run)) = "none"
          /\ LET scn == elf_scn_name_map_search(cs_map, cs_in.run[cs_i].name)
             IN  \E fail \in {"none", "gelf_getshdr", "gelf_update_shdr"} :
                    /\ fail # "none" => scn # 0
                    /\ cs_err' = IF fail = "none" THEN "none" ELSE "libelf"
                    /\ cs_pc' = IF fail = "none" THEN "patch" ELSE "done"
                    /\ cs_addr' = IF fail = "none"
                                  THEN cache_sections_apply(cs_addr, scn,
                                                            cs_in.run[cs_i].address)
                                  ELSE cs_addr
    /\ cs_i' = cs_i + 1
    /\ cs_sect_it' = IF cs_pc' = "done" THEN section_it_deinit(cs_sect_it)
                      ELSE cs_sect_it
    /\ UNCHANGED <<cs_in, cs_map>>

(***************************************************************************)
(* ELF files of up to MaxScns sections, allocated or not, two of which may *)
(* carry the same name, and runtime lists of up to MaxSects pairs.         *)
(***************************************************************************)
MaxScns == 3

MaxSects == 2

\* sh_addr of a section of a relocatable file, and the addresses of sections
\* of a loaded module
ShAddrOnDisk == U64Zero

SectionAddresses == {U64(4096), KernelBase}

SectAccesses ==
    {"subscript", "address", "read_address", "battr", "attr", "name", "sect_name",
     "read_name"}

SectFails ==
    {NoFail} \cup [at : SectAccesses, idx : 1..MaxSects, kind : {"LOOKUP", "FAULT"}]

\* the section iterator reads /sys/module/<name>/sections
SectLive == [live |-> TRUE, legacy |-> FALSE, fail |-> NoFail]

\* the section iterator walks the module's sect_attrs
SectWalks == [live : {FALSE}, legacy : BOOLEAN, fail : SectFails]

CsInit ==
    /\ cs_in \in [scns : SeqsUpTo([name : SectionNames, alloc : BOOLEAN], MaxScns),
                  run : SeqsUpTo([name : SectionNames, address : SectionAddresses],
                                 MaxSects),
                  sect : {SectLive}]
    /\ cs_pc = "call"
    /\ cs_i = 1
    /\ cs_map = [n \in SectionNames |-> 0]
    /\ cs_addr = [s \in 1..Len(cs_in.scns) |-> ShAddrOnDisk]
    /\ cs_err = "none"
    /\ cs_sect_it = SectionItNone

CsIdle ==
    /\ cs_in = [scns |-> <<>>, run |-> <<>>, sect |-> SectLive]
    /\ cs_pc = "idle"
    /\ cs_i = 1
    /\ cs_map = [n \in SectionNames |-> 0]
    /\ cs_addr = <<>>
    /\ cs_err = "none"
    /\ cs_sect_it = SectionItNone

(***************************************************************************)
(* parse_gnu_build_id_from_note: the buffer of ELF notes of a module is    *)
(* scanned for the GNU build ID.  The buffer is a sequence of byte values; *)
(* offsets count from its first byte: nb_p is the distance of p from note. *)
(***************************************************************************)
VARIABLES
    nb_in,      \* note: the bytes, note_size being their number; bswap
    nb_pc,      \* the statement the call is at
    nb_p,       \* p, as an offset into note
    nb_read,    \* one past the highest offset read from so far
    nb_ret      \* *ret as an offset, and the length returned

nb_vars == <<nb_in, nb_pc, nb_p, nb_read, nb_ret>>

\* sizeof(nhdr)
SizeofNhdr == 12

\* NT_GNU_BUILD_ID
NT_GNU_BUILD_ID == 3

\* "GNU", with its terminating NUL: sizeof("GNU") bytes
GnuName == <<71, 78, 85, 0>>

\* *ret = NULL
NullPtr == -1

\* a 32-bit field of the header at offset o, copied by memcpy on a
\* little-endian machine
Word32(note, o) ==
    note[o + 1] + 256 * note[o + 2] + 65536 * note[o + 3] + 16777216 * note[o + 4]

\* bswap_32(v)
bswap_32(v) ==
    (v % 256) * 16777216 + ((v \div 256) % 256) * 65536
    + ((v \div 65536) % 256) * 256 + (v \div 16777216)

\* the header fields are used as they were copied
NhdrField_NoSwap(note, o, bswap) == Word32(note, o)

\* lines 555-560: one field of nhdr, copied from offset o
NhdrField(note, o, bswap) ==
    IF bswap THEN bswap_32(Word32(note, o)) ELSE Word32(note, o)

\* an unsigned comparison d >= n where d is a pointer difference converted
\* to size_t: a negative d wraps to a value above every n
SizeGeq(d, n) == d < 0 \/ d >= n

\* to_align = (size_t)-(p - (char *)note) % 4
to_align(p) == (4 - (p % 4)) % 4

\* ALIGN_NOTE(): its break leaves the macro's own do-while only, so p stays
\* where it is when fewer than to_align bytes are left; with p past end the
\* difference wraps and p is moved
ALIGN_NOTE(p, size) ==
    IF SizeGeq(size - p, to_align(p)) THEN p + to_align(p) ELSE p

\* memcmp(name, "GNU", sizeof("GNU")) == 0, name at offset o
IsGnuName(note, o) == SubSeq(note, o + 1, o + Len(GnuName)) = GnuName

\* lines 541-546
parse_note_begin ==
    /\ nb_pc = "call"
    /\ nb_pc' = "loop"
    /\ nb_p' = 0
    /\ UNCHANGED <<nb_in, nb_read, nb_ret>>

\* *ret = NULL; return 0
NoBuildId == [ptr |-> NullPtr, len |-> 0]

\* lines 563-581, after the header was copied from offset p: the name is at
\* p + sizeof(nhdr)
ParseNoteBody(note, size, p, namesz, descsz, type) ==
    IF namesz > size - (p + SizeofNhdr)
    THEN [pc |-> "done", p |-> p + SizeofNhdr, ret |-> NoBuildId,
          read |-> p + SizeofNhdr]
    ELSE IF /\ namesz = Len(GnuName)
            /\ IsGnuName(note, p + SizeofNhdr)
            /\ type = NT_GNU_BUILD_ID
            /\ descsz > 0
    THEN IF descsz > size - ALIGN_NOTE(p + SizeofNhdr + namesz, size)
         THEN [pc |-> "done", p |-> ALIGN_NOTE(p + SizeofNhdr + namesz, size),
               ret |-> NoBuildId, read |-> p + SizeofNhdr + namesz]
         ELSE [pc |-> "done", p |-> ALIGN_NOTE(p + SizeofNhdr + namesz, size),
               ret |-> [ptr |-> ALIGN_NOTE(p + SizeofNhdr + namesz, size),
                        len |-> descsz],
               read |-> p + SizeofNhdr + namesz]
    ELSE [pc |-> "loop",
          p |-> ALIGN_NOTE(ALIGN_NOTE(p + SizeofNhdr + namesz, size) + descsz, size),
          ret |-> NoBuildId,
          read |-> IF namesz = Len(GnuName) THEN p + SizeofNhdr + namesz
                   ELSE p + SizeofNhdr]

Max(a, b) == IF a > b THEN a ELSE b

\* lines 547-582, one iteration of the loop.  With p past end the
\* difference end - p wraps, the loop goes on and memcpy reads outside the
\* buffer: what the call does then is not defined, it may fault or return
\* anything
parse_note_loop ==
    /\ nb_pc = "loop"
    /\ LET note == nb_in.note
           size == Len(nb_in.note)
       IN  IF ~SizeGeq(size - nb_p, SizeofNhdr)
           THEN /\ nb_pc' = "done"
                /\ nb_ret' = NoBuildId
                /\ UNCHANGED <<nb_p, nb_read>>
           ELSE IF nb_p + SizeofNhdr > size
           THEN /\ nb_read' = Max(nb_read, nb_p + SizeofNhdr)
                /\ \E out \in {"fault", "done"} : nb_pc' = out
                /\ \E r \in {NoBuildId, [ptr |-> nb_p + SizeofNhdr, len |-> 1]} :
                      nb_ret' = r
                /\ UNCHANGED nb_p
           ELSE LET r == ParseNoteBody(note, size, nb_p,
                                       NhdrField(note, nb_p, nb_in.bswap),
                                       NhdrField(note, nb_p + 4, nb_in.bswap),
                                       NhdrField(note, nb_p + 8, nb_in.bswap))
                IN  /\ nb_pc' = r.pc
                    /\ nb_p' = r.p
                    /\ nb_ret' = r.ret
                    /\ nb_read' = Max(nb_read, r.read)
    /\ UNCHANGED nb_in

(***************************************************************************)
(* Note buffers: up to MaxNotes notes, each with a name, a type and a      *)
(* descriptor, encoded with the byte order the caller says or the other    *)
(* one, whole or cut short.                                                *)
(***************************************************************************)
MaxNotes == 2

\* a 32-bit field v as four bytes, least significant first, or swapped
EncWord(v, swapped) ==
    IF swapped
    THEN <<v \div 16777216, (v \div 65536) % 256, (v \div 256) % 256, v % 256>>
    ELSE <<v % 256, (v \div 256) % 256, (v \div 65536) % 256, v \div 16777216>>

\* padding to 4 after n bytes
NotePad(n) == [k \in 1..((4 - (n % 4)) % 4) |-> 0]

\* (namesz, descsz, type, name, padding to 4, desc, padding to 4)
EncNote(n, swapped) ==
    EncWord(n.namesz, swapped) \o EncWord(n.descsz, swapped)
    \o EncWord(n.type, swapped)
    \o n.name \o NotePad(Len(n.name)) \o n.desc \o NotePad(Len(n.desc))

RECURSIVE EncNotes(_, _)
EncNotes(ns, swapped) ==
    IF ns = <<>> THEN <<>>
    ELSE EncNote(Head(ns), swapped) \o EncNotes(Tail(ns), swapped)

WellFormedNote(name, type, desc) ==
    [namesz |-> Len(name), descsz |-> Len(desc), type |-> type, name |-> name,
     desc |-> desc]

\* well-formed notes: build IDs of one and of four bytes, a build ID note
\* with an empty descriptor, a GNU note of another type, notes of other
\* names (of 3 and of 4 bytes) with the type of a build ID, a note without name
NoteKinds ==
    {WellFormedNote(GnuName, NT_GNU_BUILD_ID, <<7>>),
     WellFormedNote(GnuName, NT_GNU_BUILD_ID, <<9, 8, 7, 6>>),
     WellFormedNote(GnuName, NT_GNU_BUILD_ID, <<>>),
     WellFormedNote(GnuName, 1, <<5>>),
     WellFormedNote(<<71, 78, 0>>, NT_GNU_BUILD_ID, <<5>>),
     WellFormedNote(<<71, 78, 88, 0>>, NT_GNU_BUILD_ID, <<5, 5>>),
     WellFormedNote(<<>>, NT_GNU_BUILD_ID, <<5>>)}

\* notes whose header claims more bytes of name or of descriptor than follow
LyingNotes ==
    {[namesz |-> 4, descsz |-> 40, type |-> NT_GNU_BUILD_ID, name |-> GnuName,
      desc |-> <<7>>],
     [namesz |-> 4, descsz |-> 40, type |-> 1, name |-> GnuName, desc |-> <<7>>],
     [namesz |-> 40, descsz |-> 1, type |-> NT_GNU_BUILD_ID, name |-> GnuName,
      desc |-> <<7>>]}

\* buffers of well-formed notes in the byte order the caller says, the
\* padding after the last descriptor there or not
NbInit ==
    /\ \E ns \in SeqsUpTo(NoteKinds, MaxNotes), bswap \in BOOLEAN, padded \in BOOLEAN :
          LET bytes == EncNotes(ns, bswap)
              last == IF ns = <<>> THEN 0 ELSE Len(NotePad(Len(ns[Len(ns)].desc)))
          IN  nb_in = [notes |-> ns, bswap |-> bswap,
                       note |-> IF padded THEN bytes
                                ELSE SubSeq(bytes, 1, Len(bytes) - last)]
    /\ nb_pc = "call"
    /\ nb_p = 0
    /\ nb_read = 0
    /\ nb_ret = NoBuildId

\* buffers of any notes, in either byte order, cut after any number of bytes
NbAnyInit ==
    /\ \E ns \in SeqsUpTo(NoteKinds \cup LyingNotes, MaxNotes),
          bswap \in BOOLEAN, swapped \in BOOLEAN :
          \E size \in 0..Len(EncNotes(ns, swapped)) :
             nb_in = [notes |-> ns, bswap |-> bswap,
                      note |-> SubSeq(EncNotes(ns, swapped), 1, size)]
    /\ nb_pc = "call"
    /\ nb_p = 0
    /\ nb_read = 0
    /\ nb_ret = NoBuildId

NbIdle ==
    /\ nb_in = [notes |-> <<>>, bswap |-> FALSE, note |-> <<>>]
    /\ nb_pc = "idle"
    /\ nb_p = 0
    /\ nb_read = 0
    /\ nb_ret = NoBuildId

(***************************************************************************)
(* Specifications.  Each one runs one part of the program and leaves the   *)
(* variables of the other parts alone.                                     *)
(***************************************************************************)
vars == <<vm_vars, dm_vars, it_vars, ld_vars, cs_vars, nb_vars>>

vm_rest == <<dm_vars, it_vars, ld_vars, cs_vars, nb_vars>>

dm_rest == <<vm_vars, it_vars, ld_vars, cs_vars, nb_vars>>

it_rest == <<vm_vars, dm_vars, ld_vars, cs_vars, nb_vars>>

ld_rest == <<vm_vars, dm_vars, it_vars, cs_vars, nb_vars>>

cs_rest == <<vm_vars, dm_vars, it_vars, ld_vars, nb_vars>>

\* parse_vmcoreinfo on descriptors of up to MaxLines lines
InitVmcore == VmInit /\ DmIdle /\ ItIdle /\ LdIdle /\ CsIdle /\ NbIdle

vm_begin == parse_vmcoreinfo_begin /\ UNCHANGED vm_rest

vm_line == parse_vmcoreinfo_line /\ UNCHANGED vm_rest

vm_check == parse_vmcoreinfo_check /\ UNCHANGED vm_rest

NextVmcore == vm_begin \/ vm_line \/ vm_check

SpecVmcore == InitVmcore /\ [][NextVmcore]_vars

\* parse_vmcoreinfo on a complete descriptor plus one numeric line
InitVmcoreNum == VmNumInit /\ DmIdle /\ ItIdle /\ LdIdle /\ CsIdle /\ NbIdle

SpecVmcoreNum == InitVmcoreNum /\ [][NextVmcore]_vars

\* depmod_index_find on well-formed indexes
InitDepmod == DmInit /\ VmIdle /\ ItIdle /\ LdIdle /\ CsIdle /\ NbIdle

dm_begin == depmod_index_find_begin /\ UNCHANGED dm_rest

dm_loop == depmod_index_find_loop /\ UNCHANGED dm_rest

dm_end == depmod_index_find_end /\ UNCHANGED dm_rest

NextDepmod == dm_begin \/ dm_loop \/ dm_end

SpecDepmod == InitDepmod /\ [][NextDepmod]_vars

\* depmod_index_find on well-formed and damaged indexes
InitDepmodAny == DmAnyInit /\ VmIdle /\ ItIdle /\ LdIdle /\ CsIdle /\ NbIdle

SpecDepmodAny == InitDepmodAny /\ [][NextDepmod]_vars

\* depmod_index_find called and run to its return: the function is sequential
\* code, so a step that is enabled is taken
depmod_index_find_call ==
    /\ dm_pc = "idle"
    /\ \E a \in DmWalkInputs :
          /\ dm_index' = a[1]
          /\ dm_name' = a[2]
    /\ dm_pc' = "call"
    /\ UNCHANGED <<dm_n, dm_pos, dm_offset, dm_path, dm_len, dm_err, dm_why,
                   dm_nodes>>

dm_call == depmod_index_find_call /\ UNCHANGED dm_rest

InitDepmodWalk == DmIdle /\ VmIdle /\ ItIdle /\ LdIdle /\ CsIdle /\ NbIdle

NextDepmodWalk == dm_call \/ NextDepmod

SpecDepmodWalk ==
    InitDepmodWalk /\ [][NextDepmodWalk]_vars /\ WF_vars(NextDepmodWalk)

\* the module iterator on live and kernel-walk targets
InitIter == ItInit /\ VmIdle /\ DmIdle /\ LdIdle /\ CsIdle /\ NbIdle

iter_init == it_init /\ UNCHANGED it_rest

iter_next == it_next /\ UNCHANGED it_rest

iter_deinit == it_deinit /\ UNCHANGED it_rest

NextIter == iter_init \/ iter_next \/ iter_deinit

SpecIter == InitIter /\ [][NextIter]_vars

\* the discovery run on load requests of up to MaxPaths paths against
\* targets of up to MaxMods loaded modules
Init == LdInit /\ VmIdle /\ DmIdle /\ ItIdle /\ CsIdle /\ NbIdle

ld_begin == report_debug_info_begin /\ UNCHANGED ld_rest

ld_path == report_debug_info_path /\ UNCHANGED ld_rest

ld_main == report_debug_info_main /\ UNCHANGED ld_rest

rkm_begin == report_kernel_modules_begin /\ UNCHANGED ld_rest

rkm_insert == report_kernel_modules_table /\ UNCHANGED ld_rest

rlkm_init == report_loaded_kernel_modules_init /\ UNCHANGED ld_rest

rlkm_step == report_loaded_kernel_modules_step /\ UNCHANGED ld_rest

rkm_leftover == report_kernel_modules_leftover /\ UNCHANGED ld_rest

rkm_out == report_kernel_modules_out /\ UNCHANGED ld_rest

ld_out == report_debug_info_out /\ UNCHANGED ld_rest

Next ==
    \/ ld_begin
    \/ ld_path
    \/ ld_main
    \/ rkm_begin
    \/ rkm_insert
    \/ rlkm_init
    \/ rlkm_step
    \/ rkm_leftover
    \/ rkm_out
    \/ ld_out

Spec == Init /\ [][Next]_vars

\* the discovery run on module files that share build IDs
InitChains == LdChainInit /\ VmIdle /\ DmIdle /\ ItIdle /\ CsIdle /\ NbIdle

SpecChains == InitChains /\ [][Next]_vars

\* the run on module files and the modules of a target
InitModules == LdModulesInit /\ VmIdle /\ DmIdle /\ ItIdle /\ CsIdle /\ NbIdle

SpecModules == InitModules /\ [][Next]_vars

\* the run on vmlinux and module files, for every way to select the fast path
InitFlush == LdFlushInit /\ VmIdle /\ DmIdle /\ ItIdle /\ CsIdle /\ NbIdle

SpecFlush == InitFlush /\ [][Next]_vars

\* the run on the modules of a target, looked for at the standard locations
InitDefault == LdDefaultInit /\ VmIdle /\ DmIdle /\ ItIdle /\ CsIdle /\ NbIdle

SpecDefault == InitDefault /\ [][Next]_vars

\* ELF files given with their sections, up to MaxScns of them: whether
\* elf_getshdrstrndx succeeds, for each section whether gelf_getshdr and
\* elf_strptr succeed and its name, and what the file is as a vmlinux
ScnKinds ==
    [shdr : {TRUE}, strptr : {TRUE}, name : ScnNames]
    \cup {[shdr |-> FALSE, strptr |-> TRUE, name |-> ".text"],
          [shdr |-> TRUE, strptr |-> FALSE, name |-> ".text"]}

ElfFiles ==
    [kind : {"elf"}, build_id : {1}, patch : {"ok"}, shstrndx : BOOLEAN,
     scns : SeqsUpTo(ScnKinds, MaxScns), vmlinux : {"vmlinux_new", "vmlinux_norange"}]

\* load requests of one such file
IdentifyRequests ==
    [paths : {<<d>> : d \in ElfFiles}, load_main : {FALSE}, load_default : BOOLEAN,
     prog : {[live |-> FALSE, env |-> [set |-> FALSE, value |-> <<>>]]},
     mods : SeqsUpTo({[build_id |-> 1, indexed |-> TRUE]}, MaxLoaded)]

LdIdentifyInit == ld_in \in IdentifyRequests /\ LdStart("call")

\* values of DRGN_USE_PROC_AND_SYS_MODULES: those that atoi converts to 0 and
\* those it converts to another int
EnvValues ==
    {<<>>, <<"0">>, <<"0", "0">>, <<"-", "0">>, <<"x">>, <<"0", "1">>, <<"1">>,
     <<"-", "1">>, <<" ", "2">>, <<"+", "9", "x">>,
     <<"4", "2", "9", "4", "9", "6", "7", "2", "9", "6">>}

\* load requests for programs live or not, with the variable unset or set
BackendRequests ==
    [paths : SeqsUpTo({[kind |-> "module", build_id |-> 1, patch |-> p] :
                          p \in {"ok", "fail"}},
                      MaxPaths),
     load_main : {FALSE}, load_default : BOOLEAN,
     prog : [live : BOOLEAN,
             env : {[set |-> FALSE, value |-> <<>>]}
                   \cup [set : {TRUE}, value : EnvValues]],
     mods : SeqsUpTo({[build_id |-> 1, indexed |-> FALSE]}, MaxLoaded)]

LdBackendInit == ld_in \in BackendRequests /\ LdStart("call")

\* the discovery run with the backends to choose from
InitBackend == LdBackendInit /\ VmIdle /\ DmIdle /\ ItIdle /\ CsIdle /\ NbIdle

SpecBackend == InitBackend /\ [][Next]_vars

\* the discovery run on one ELF file given with its sections
InitIdentify == LdIdentifyInit /\ VmIdle /\ DmIdle /\ ItIdle /\ CsIdle /\ NbIdle

SpecIdentify == InitIdentify /\ [][Next]_vars

\* the discovery run when memory runs out
InitMemory == LdMemoryInit /\ VmIdle /\ DmIdle /\ ItIdle /\ CsIdle /\ NbIdle

SpecMemory == InitMemory /\ [][Next]_vars

\* the discovery run on files of every kind
InitPaths == LdPathsInit /\ VmIdle /\ DmIdle /\ ItIdle /\ CsIdle /\ NbIdle

SpecPaths == InitPaths /\ [][Next]_vars

\* cache_kernel_module_sections on one ELF file and one runtime list
InitSections == CsInit /\ VmIdle /\ DmIdle /\ ItIdle /\ LdIdle /\ NbIdle

cs_begin == cache_sections_begin /\ UNCHANGED cs_rest

cs_scan == cache_sections_scan /\ UNCHANGED cs_rest

cs_section_it == cache_sections_section_it /\ UNCHANGED cs_rest

cs_patch == cache_sections_patch /\ UNCHANGED cs_rest

NextSections == cs_begin \/ cs_scan \/ cs_section_it \/ cs_patch

SpecSections == InitSections /\ [][NextSections]_vars

\* one step machine per behaviour, on a kernel-walk target: the module
\* iterator, or cache_kernel_module_sections on a file of at most one
\* section with the kernel-walk section iterator
ItWalkInit == ItInit /\ it_target \in WalkTargets

CsWalkInit ==
    /\ cs_in \in [scns : {<<>>, <<[name |-> <<"t">>, alloc |-> TRUE]>>},
                  run : SeqsUpTo([name : SectionNames, address : SectionAddresses],
                                 MaxSects),
                  sect : SectWalks]
    /\ CsInit!2 /\ CsInit!3 /\ CsInit!4 /\ CsInit!5 /\ CsInit!6 /\ CsInit!7

InitSteps ==
    /\ VmIdle /\ DmIdle /\ LdIdle /\ NbIdle
    /\ \/ ItWalkInit /\ CsIdle
       \/ ItIdle /\ CsWalkInit

NextSteps == NextIter \/ NextSections

SpecSteps == InitSteps /\ [][NextSteps]_vars

\* one machine per behaviour: the discovery run on chains of module files,
\* or cache_kernel_module_sections
InitIterators ==
    /\ VmIdle /\ DmIdle /\ ItIdle /\ NbIdle
    /\ \/ LdChainInit /\ CsIdle
       \/ LdIdle /\ CsInit

NextIterators == Next \/ NextSections

SpecIterators == InitIterators /\ [][NextIterators]_vars

\* parse_gnu_build_id_from_note on buffers of well-formed notes
nb_rest == <<vm_vars, dm_vars, it_vars, ld_vars, cs_vars>>

InitNotes == NbInit /\ VmIdle /\ DmIdle /\ ItIdle /\ LdIdle /\ CsIdle

nb_begin == parse_note_begin /\ UNCHANGED nb_rest

nb_loop == parse_note_loop /\ UNCHANGED nb_rest

NextNotes == nb_begin \/ nb_loop

SpecNotes == InitNotes /\ [][NextNotes]_vars

\* parse_gnu_build_id_from_note on buffers of any content and size
InitNotesAny == NbAnyInit /\ VmIdle /\ DmIdle /\ ItIdle /\ LdIdle /\ CsIdle

SpecNotesAny == InitNotesAny /\ [][NextNotes]_vars


(***************************************************************************)
(* Properties of parse_vmcoreinfo.                                         *)
(***************************************************************************)
VmDone == vm_pc = "done"

VmAccepted == vm_pc = "done" /\ vm_err = "none"

\* the descriptor has a complete line for key k whose value satisfies P
VmHasLine(k, P(_)) ==
    \E i \in 1..Len(vm_in.lines) : vm_in.lines[i].key = k /\ P(vm_in.lines[i].val)

NonEmptyValue(v) == v # <<>>

NonZeroValue(v) == \E i \in 1..Len(v) : DigitVal(v[i]) \in 1..15

VmSuppliesRequired ==
    /\ VmHasLine(KeyOsrelease, NonEmptyValue)
    /\ VmHasLine(KeyPagesize, NonZeroValue)
    /\ VmHasLine(KeySwapper, NonZeroValue)

\* C3 (as claimed): parse_vmcoreinfo succeeds only if the descriptor itself
\* supplies a non-empty OSRELEASE, a non-zero PAGESIZE and a non-zero
\* SYMBOL(swapper_pg_dir), whatever the output record held before the call.
C3_SucceedsOnlyIfSupplied == VmAccepted => VmSuppliesRequired

U64IsPow2(v) ==
    \E i \in 1..4 :
        /\ \E k \in 0..15 : v[i] = 2^k
        /\ \A j \in (1..4) \ {i} : v[j] = 0

\* C4 (as claimed): every accepted descriptor leaves a non-empty osrelease,
\* a page_size that is a power of two and at least 4096, and a non-zero
\* swapper_pg_dir.
C4_AcceptedRecordValid ==
    VmAccepted =>
        /\ vm_ret.osrelease # <<>>
        /\ U64IsPow2(vm_ret.page_size)
        /\ U64Leq(U64(4096), vm_ret.page_size)
        /\ vm_ret.swapper_pg_dir # U64Zero

(***************************************************************************)
(* Numeric values in VMCOREINFO (SpecVmcoreNum): the line under test is    *)
(* the last line of the descriptor.                                        *)
(***************************************************************************)
VmTestKey == vm_in.lines[Len(vm_in.lines)].key

VmTestVal == vm_in.lines[Len(vm_in.lines)].val

\* the call is over: it returned, or it was killed reading behind the
\* descriptor
VmEnded == vm_pc \in {"done", "fault"}

\* line_to_u64 refused the line under test
VmRejected == vm_pc = "done" /\ vm_err = "OVERFLOW"

\* the number the line under test left in the record
VmStored ==
    IF VmTestKey = KeyPagesize THEN vm_ret.page_size
    ELSE IF VmTestKey = KeyKerneloffset THEN vm_ret.kaslr_offset
    ELSE IF VmTestKey = KeySwapper THEN vm_ret.swapper_pg_dir
    ELSE IF vm_ret.pgtable_l5_enabled THEN U64(1) ELSE U64Zero

\* the base the specification gives for a key
ClaimedBase(k) == IF k \in {KeyPagesize, KeyL5} THEN 10 ELSE 16

\* a non-empty string of digits of base b
IsNumeral(s, b) == s # <<>> /\ \A i \in 1..Len(s) : DigitVal(s[i]) < b

\* the value of a short numeral, most significant digit first
RECURSIVE NumeralValue(_, _)
NumeralValue(s, b) ==
    IF s = <<>> THEN 0
    ELSE NumeralValue(SubSeq(s, 1, Len(s) - 1), b) * b + DigitVal(s[Len(s)])

ShortEnough(s) == Len(s) <= 7

\* C5 (as claimed): PAGESIZE and NUMBER(pgtable_l5_enabled) are read in
\* base 10, KERNELOFFSET and SYMBOL(swapper_pg_dir) in base 16: a numeral of
\* that base is stored with its value in that base, and a string that is not
\* a numeral of that base is rejected.
C5_ValuesInClaimedBase ==
    (VmEnded /\ vm_in.test) =>
        LET s == VmTestVal
            b == ClaimedBase(VmTestKey)
        IN  IF IsNumeral(s, b)
            THEN ShortEnough(s) =>
                    (~VmRejected /\ VmStored = U64(NumeralValue(s, b)))
            ELSE VmRejected

(***************************************************************************)
(* Properties of depmod_index_find.                                        *)
(***************************************************************************)
DmDone == dm_pc = "done"

\* success with a path
DmFound == DmDone /\ dm_err = "none" /\ dm_path # <<>>

\* success without a path
DmNotFound == DmDone /\ dm_err = "none" /\ dm_path = <<>>

\* an error return that wrote no output
DmFailed == DmDone /\ dm_err = "OTHER" /\ dm_path = <<"unset">>

\* C6: on a well-formed index that serialises a map, the lookup of a key
\* returns the path of the key's first value record, and the lookup of any
\* other name (a prefix or an extension of a key, another letter case)
\* returns "not found" without error.
C6_FindMatchesMap ==
    (DmDone /\ dm_index.wellformed) =>
        IF dm_name \in DOMAIN dm_index.first
        THEN DmFound /\ dm_path[2] = dm_index.first[dm_name]
                     /\ dm_len = Len(dm_index.first[dm_name])
        ELSE DmNotFound

\* C6 witness: "abcb" is found behind a prefix node and a child table, and
\* its path ends at the first of two colons
C6_Witness ==
    /\ DmFound
    /\ dm_index = DepmodFixPrefix
    /\ dm_name = <<97, 98, 99, 98>>
    /\ dm_path[2] = <<112, 47, 50>>

\* the last node offset read lies outside the index
DmOffsetOutOfBounds == DmDone /\ dm_offset.off > Len(dm_index.bytes)

\* the walk got to the string of the first value record, at dm_pos
DmAtRecord == DmDone /\ dm_why \in {"no_colon", "found"}

\* that string, up to its NUL, holds no ':'
DmRecordLacksColon ==
    LET nul == memchr(dm_index.bytes, dm_pos + 1, 0)
        colon == memchr(dm_index.bytes, dm_pos + 1, Colon)
    IN  DmAtRecord /\ (colon = 0 \/ (nul # 0 /\ nul < colon))

\* no ':' lies between that string and the end of the index
DmNoColonLeft == DmAtRecord /\ memchr(dm_index.bytes, dm_pos + 1, Colon) = 0

\* C7 (as claimed): an out-of-bounds node offset, a value record without a
\* ':' and a value list whose count is zero all make depmod_index_find
\* return "not found" (no path, no error).
C7_MalformedIsNotFound ==
    (DmOffsetOutOfBounds \/ DmRecordLacksColon \/ (DmDone /\ dm_why = "zero_count"))
        => DmNotFound

\* C7 (amended): a value list whose count is zero returns "not found"; an
\* out-of-bounds node offset returns an error, and so does a first value
\* record after which the index holds no ':' at all.
C7_ZeroCountNotFoundElseError ==
    /\ (DmDone /\ dm_why = "zero_count") => DmNotFound
    /\ DmOffsetOutOfBounds => DmFailed
    /\ DmNoColonLeft => DmFailed

\* C7 witness: a node offset beyond the end of the index ends in an error
C7_Witness == DmOffsetOutOfBounds /\ DmFailed /\ dm_nodes = 2

\* C8 (as claimed): a well-formed miss returns success with the path null
\* and the length 0, whatever the length output held before.
C8_MissSetsPathAndLength == DmNotFound => dm_len = 0

\* C9 (as claimed): a returned path is the part of the first value record's
\* NUL-terminated string before its ':'; it holds no NUL and no byte of a
\* later record.
C9_PathWithinFirstRecord ==
    DmFound =>
        /\ \A i \in 1..Len(dm_path[2]) : dm_path[2][i] # 0
        /\ ~DmRecordLacksColon

(***************************************************************************)
(* Properties of the module iterator.                                      *)
(***************************************************************************)
ItEmitted == it_pc = "iter" /\ it_calls > 0 /\ it_err = "none"

\* C10: every module the iterator emits, from either backend, has
\* start <= end
C10_EmittedStartLeqEnd == ItEmitted => U64Leq(it.start, it.end)

(***************************************************************************)
(* Properties of the discovery run.                                        *)
(***************************************************************************)
LdDone == ld_pc = "done"

\* the calls of report_elf, as indexes into the log of indexer calls
ElfReports == {i \in DOMAIN ld_reports : ld_reports[i].op = "elf"}

\* C1: when the run has returned, every file it opened was either handed
\* to the indexer by one successful report_elf call or closed once by the
\* run, and not both
C1_FileMovedOrClosedOnce ==
    LdDone => \A f \in DOMAIN ld_files :
                 ld_files[f].moved + ld_files[f].closed = 1

\* the calls of report_elf that report a file for loaded module number k
LoadedReports(k) == {i \in ElfReports : ld_reports[i].name = ModName(k)}

\* C2 as stated: the files of a chain are reported for the loaded module in
\* the order of the caller's path list
C2_ChainInInsertionOrder ==
    \A k \in 1..ld_it.n : \A i, j \in LoadedReports(k) :
        i < j => ld_reports[i].file < ld_reports[j].file

\* C2: the files of a chain are reported for the loaded module in the
\* reverse of the order of the caller's path list, the last one first
C2_ChainInReverseInsertionOrder ==
    \A k \in 1..ld_it.n : \A i, j \in LoadedReports(k) :
        i < j => ld_reports[i].file > ld_reports[j].file

\* a chain of three files has been reported for a loaded module
C2_Witness ==
    \E k \in 1..ld_it.n : \E i, j, l \in LoadedReports(k) :
        /\ i < j /\ j < l
        /\ ld_reports[l].ret = "none"
        /\ ld_kmods[3].next = 2 /\ ld_kmods[2].next = 1


(***************************************************************************)
(* Properties of cache_kernel_module_sections                              *)
(***************************************************************************)
\* cache_kernel_module_sections returned success
CsOk == cs_pc = "done" /\ cs_err = "none"

\* the pairs of the runtime list that give an address for the name
RunPairs(name) == {j \in 1..Len(cs_in.run) : cs_in.run[j].name = name}

\* the section is the first allocated section of its name
FirstAllocated(s) ==
    /\ cs_in.scns[s].alloc
    /\ \A r \in 1..(s - 1) :
          cs_in.scns[r].alloc => cs_in.scns[r].name # cs_in.scns[s].name

\* the address of the last pair of the runtime list that names the section
LastAddress(name) ==
    cs_in.run[CHOOSE j \in RunPairs(name) : \A k \in RunPairs(name) : k <= j].address

\* C11: after a successful cache_kernel_module_sections every ELF section
\* whose name occurs in the runtime list has sh_addr equal to a runtime
\* address given for that name, and every other allocated section has its
\* sh_addr unchanged, also when two sections carry the same name.
C11_NamedSectionsPatched ==
    CsOk =>
        \A s \in 1..Len(cs_in.scns) :
            IF RunPairs(cs_in.scns[s].name) # {}
            THEN \E j \in RunPairs(cs_in.scns[s].name) :
                    cs_addr[s] = cs_in.run[j].address
            ELSE cs_in.scns[s].alloc => cs_addr[s] = ShAddrOnDisk

\* C11 (amended): after a successful cache_kernel_module_sections the first
\* allocated section of each name that occurs in the runtime list has sh_addr
\* equal to the address of the last pair of that name, and every other
\* section (not allocated, a later section of a name, a name not in the
\* list) has its sh_addr unchanged.
C11_FirstAllocatedPatched ==
    CsOk =>
        \A s \in 1..Len(cs_in.scns) :
            cs_addr[s] = IF FirstAllocated(s) /\ RunPairs(cs_in.scns[s].name) # {}
                         THEN LastAddress(cs_in.scns[s].name)
                         ELSE ShAddrOnDisk

\* a file with two allocated sections of one name was patched from a list
\* that names it twice with different addresses
C11_Witness ==
    /\ CsOk
    /\ \E s1, s2 \in 1..Len(cs_in.scns) :
          /\ s1 < s2
          /\ cs_in.scns[s1].alloc /\ cs_in.scns[s2].alloc
          /\ cs_in.scns[s1].name = cs_in.scns[s2].name
          /\ Len(cs_in.run) = 2
          /\ cs_in.run[1].name = cs_in.scns[s1].name
          /\ cs_in.run[2].name = cs_in.scns[s1].name
          /\ cs_in.run[1].address # cs_in.run[2].address
          /\ cs_addr[s1] = cs_in.run[2].address
          /\ cs_addr[s2] = ShAddrOnDisk

(***************************************************************************)
(* Properties of the discovery run: the build-ID map                       *)
(***************************************************************************)
\* the run returned without a fatal error
LdReturnedOk == LdDone /\ ld_err = "none"

\* the calls of report_error
ErrorReports == {i \in DOMAIN ld_reports : ld_reports[i].op = "error"}

\* kmods[k] is a module file without a GNU build ID
LacksBuildId(k) == ld_in.paths[ld_kmods[k].path].build_id = 0

\* kmods[k] is in the chain of an entry of the build-ID map
RECURSIVE InChainFrom(_, _)
InChainFrom(k, head) ==
    IF head = 0 THEN FALSE
    ELSE IF head = k THEN TRUE
    ELSE InChainFrom(k, ld_kmods[head].next)

InTable(k) == \E b \in DOMAIN ld_table : InChainFrom(k, ld_table[b])

\* C12: a caller-supplied module file without GNU build ID is never in the
\* build-ID map and never handed to the indexer by report_elf, and a run that
\* returns without a fatal error has reported an error under the file's path.
C12_NoBuildIdIsError ==
    \A k \in DOMAIN ld_kmods :
        LacksBuildId(k) =>
            /\ ~InTable(k)
            /\ \A i \in ElfReports : ld_reports[i].file # ld_kmods[k].file
            /\ LdReturnedOk =>
                  \E i \in ErrorReports :
                      ld_reports[i].name = PathName(ld_kmods[k].path)

(***************************************************************************)
(* Properties of the discovery run: loaded modules                         *)
(***************************************************************************)
\* the step emits the next loaded module of the target
EmitsModule == ld_pc = "iter" /\ ld_it'.n = ld_it.n + 1

\* the module the step emits
Emitted == ld_in.mods[ld_it.n + 1]

\* before the step the build-ID map holds no entry for the build ID of the
\* module the step emits
NoEntryForEmitted == Emitted.build_id = -1 \/ ld_table[Emitted.build_id] = 0

\* C13: for every loaded module the iterator emits for which the build-ID
\* map holds no entry, whatever its build ID and whether or not module files
\* were supplied, if default loading is enabled and the indexer does not hold
\* debug info for the module's name, the module is looked up through the
\* depmod index (unless the index could not be opened).
C13_UnmatchedLookedUp ==
    [][(/\ EmitsModule
        /\ NoEntryForEmitted
        /\ ld_in.load_default
        /\ ~Emitted.indexed
        /\ ~ld_depmod'.init_failed)
       => ld_depmod'.finds = ld_depmod.finds + 1]_vars

\* the calls of report_elf that report a supplied module file at [0, 0]
\* under its own path
UnloadedReports ==
    {i \in ElfReports :
        /\ ld_reports[i].start = 0 /\ ld_reports[i].end = 0
        /\ \E k \in DOMAIN ld_kmods :
              /\ ld_kmods[k].file = ld_reports[i].file
              /\ ld_reports[i].name = PathName(ld_kmods[k].path)}

\* the build ID of the file of a call of report_elf
ReportedBuildId(i) ==
    LET k == CHOOSE k \in DOMAIN ld_kmods : ld_kmods[k].file = ld_reports[i].file
    IN  ld_in.paths[ld_kmods[k].path].build_id

\* C14: every supplied module file reported at [0, 0] has a build ID that no
\* module loaded in the target carries, also when the module iterator fails
\* to initialise or stops with a non-fatal error.
C14_UnloadedNotLoaded ==
    \A i \in UnloadedReports :
        ReportedBuildId(i) > 0 =>
            \A j \in DOMAIN ld_in.mods : ld_in.mods[j].build_id # ReportedBuildId(i)

(***************************************************************************)
(* Properties of the discovery run: files that were not loaded             *)
(***************************************************************************)
\* report_loaded_kernel_modules returned NULL: the iteration ended without a
\* fatal error
IterationEndedOk == ld_it.returned = "none"

\* kmods[k] was put into the build-ID map
Inserted(k) == ld_kmods[k].gnu_build_id >= 0 /\ ld_kmods[k].next >= 0

\* kmods[k] was in the map, and no module the iterator emitted had its
\* build ID: it was still chained in the map when the iteration ended
WasLeftOver(k) ==
    /\ Inserted(k)
    /\ \A j \in 1..ld_it.n :
          ld_in.mods[j].build_id <= 0
          \/ ld_in.mods[j].build_id # ld_kmods[k].gnu_build_id

\* the calls of report_elf for the file of kmods[k]
FileReports(k) == {i \in ElfReports : ld_reports[i].file = ld_kmods[k].file}

\* such a call reports the file at [0, 0] under its own path
ReportsUnloaded(i, k) ==
    /\ ld_reports[i].start = 0
    /\ ld_reports[i].end = 0
    /\ ld_reports[i].name = PathName(ld_kmods[k].path)

MapIsEmpty == \A b \in DOMAIN ld_table : ld_table[b] = 0

\* C15: when the module iteration has ended without a fatal error, then at
\* the end of the run every file that was still chained in the build-ID map
\* has been reported exactly once, at [0, 0] under its own path, and the map
\* is empty.
C15_LeftoversAllReported ==
    (LdDone /\ IterationEndedOk) =>
        /\ MapIsEmpty
        /\ \A k \in DOMAIN ld_kmods :
              WasLeftOver(k) =>
                  /\ Cardinality(FileReports(k)) = 1
                  /\ \A i \in FileReports(k) : ReportsUnloaded(i, k)

\* C15 (amended): when the module iteration has ended without a fatal error,
\* then at the end of the run the map is empty and every file that was still
\* chained in it has been reported at most once, at [0, 0] under its own
\* path; exactly once each if the run returned without a fatal error, and
\* otherwise the last call made is the report that was answered with the
\* fatal abort.
C15_LeftoversReportedUntilAbort ==
    (LdDone /\ IterationEndedOk) =>
        /\ MapIsEmpty
        /\ \A k \in DOMAIN ld_kmods :
              WasLeftOver(k) =>
                  /\ Cardinality(FileReports(k)) <= 1
                  /\ \A i \in FileReports(k) : ReportsUnloaded(i, k)
                  /\ ld_err = "none" => FileReports(k) # {}
        /\ ld_err # "none" =>
              /\ Len(ld_reports) \in UnloadedReports
              /\ ld_reports[Len(ld_reports)].ret = "ABORT"
              /\ ld_err = "ABORT"

\* a run that emitted a module ended with two files of one chain reported
\* as not loaded
C15_Witness ==
    /\ LdReturnedOk
    /\ ld_it.n > 0
    /\ \E k1, k2 \in DOMAIN ld_kmods :
          /\ k1 # k2
          /\ WasLeftOver(k1) /\ WasLeftOver(k2)
          /\ ld_kmods[k1].next = k2
          /\ FileReports(k1) # {} /\ FileReports(k2) # {}

(***************************************************************************)
(* Properties of the discovery run: files of loaded modules                *)
(***************************************************************************)
\* the step emits a module for whose build ID the map holds an entry
EmitsMatched == EmitsModule /\ Emitted.build_id > 0 /\ ld_table[Emitted.build_id] # 0

\* the files of the chain of that entry
MatchedChain == {k \in DOMAIN ld_kmods : InChainFrom(k, ld_table[Emitted.build_id])}

\* the calls to the indexer the step makes
NewReports == (Len(ld_reports) + 1)..Len(ld_reports')

\* a call of the step reports kmods[k] with the range and name of the module
\* the step emits
ReportsLoaded(i, k) ==
    /\ ld_reports'[i].op = "elf"
    /\ ld_reports'[i].file = ld_kmods[k].file
    /\ ld_reports'[i].start = ModRange(ld_it.n + 1)[1]
    /\ ld_reports'[i].end = ModRange(ld_it.n + 1)[2]
    /\ ld_reports'[i].name = ModName(ld_it.n + 1)

\* cache_kernel_module_sections succeeds on kmods[k]
PatchSucceeds(k) == ld_in.paths[ld_kmods[k].path].patch = "ok"

\* C16: when the iterator emits a module whose build ID has an entry in the
\* build-ID map, the entry is removed, every call of report_elf made for it
\* reports a file of the chain whose sections were patched, with exactly the
\* module's range and name, and unless a call was answered with the fatal
\* abort every file of the chain whose patching succeeds is so reported;
\* while modules are iterated a build ID without entry stays without entry.
C16_MatchedChainReported ==
    [][/\ EmitsMatched =>
             /\ ld_table'[Emitted.build_id] = 0
             /\ \A i \in NewReports :
                   ld_reports'[i].op = "elf" =>
                       \E k \in MatchedChain : PatchSucceeds(k) /\ ReportsLoaded(i, k)
             /\ ld_err' = "none" =>
                   \A k \in MatchedChain :
                       PatchSucceeds(k) =>
                           Cardinality({i \in NewReports : ReportsLoaded(i, k)}) = 1
       /\ ld_pc = "iter" =>
             \A b \in 1..2 : ld_table[b] = 0 => ld_table'[b] = 0]_vars

\* two modules with one build ID were emitted; the two files of the chain
\* were reported for the first of them, and none for the second
C16_Witness ==
    /\ ld_pc = "iter"
    /\ ld_it.n = 2
    /\ ld_in.mods[1].build_id = ld_in.mods[2].build_id
    /\ ~ld_in.load_default
    /\ Len(ld_reports) = 2
    /\ \A i \in 1..2 :
          /\ ld_reports[i].op = "elf"
          /\ ld_reports[i].name = ModName(1)
          /\ ld_reports[i].start = ModRange(1)[1]
          /\ ld_reports[i].end = ModRange(1)[2]

(***************************************************************************)
(* Properties of the discovery run: the flush before the iteration         *)
(***************************************************************************)
\* the program is live and DRGN_USE_PROC_AND_SYS_MODULES is absent or not zero
FastPathInUse ==
    /\ ld_in.prog.live
    /\ ~ld_in.prog.env.set \/ NonZeroValue(ld_in.prog.env.value)

\* the calls of report_flush, and of report_error for a failed
\* kernel_module_iterator_init
FlushReports == {i \in DOMAIN ld_reports : ld_reports[i].op = "flush"}

IteratorInitErrors ==
    {i \in ErrorReports : ld_reports[i].cause = "iterator_init"}

\* kernel_module_iterator_init was called
IteratorInitCalled == ld_it.state # "none" \/ IteratorInitErrors # {}

\* a vmlinux was newly reported
VmlinuxNewlyReported ==
    \E i \in ElfReports : ld_reports[i].name = KernelName /\ ld_reports[i].new

\* C17: in a run in which a vmlinux was newly reported and the live fast path
\* is not in use, the module iterator is initialised only after the indexer
\* was flushed successfully, exactly once; in a run that uses the live fast
\* path the indexer is never flushed.
C17_FlushBeforeIteration ==
    /\ (IteratorInitCalled /\ VmlinuxNewlyReported /\ ~FastPathInUse) =>
          /\ Cardinality(FlushReports) = 1
          /\ \A i \in FlushReports :
                /\ ld_reports[i].ret = "none"
                /\ \A j \in IteratorInitErrors : i < j
    /\ FastPathInUse => FlushReports = {}

\* a vmlinux was newly reported, the program is live with the fast path
\* switched off, and the iterator was initialised, after a flush
C17_Witness ==
    /\ ld_it.state = "live"
    /\ VmlinuxNewlyReported
    /\ ld_in.prog.live /\ ~FastPathInUse
    /\ FlushReports # {}

(***************************************************************************)
(* Properties of the discovery run: the depmod index                       *)
(***************************************************************************)
\* the step calls depmod_index_init
OpensDepmod == ld_depmod'.inits # ld_depmod.inits

\* the step is the one in which depmod_index_init fails
DepmodInitFails == ~ld_depmod.init_failed /\ ld_depmod'.init_failed

\* the step leaves depmod alone: no depmod_index_init, no depmod_index_find
DepmodUntouched ==
    ld_depmod'.inits = ld_depmod.inits /\ ld_depmod'.finds = ld_depmod.finds

\* the module the step emits needs the index: no entry for its build ID,
\* default loading enabled, its name not indexed
EmittedNeedsDepmod ==
    /\ EmitsModule
    /\ NoEntryForEmitted
    /\ ld_in.load_default
    /\ ~Emitted.indexed

\* C18: the depmod index is opened at most once per run, and only for a
\* loaded module that needs it; once opening or validating it has failed no
\* later step opens it or looks anything up in it, and the run continues
\* with the next module.
C18_DepmodOpenedOnceLazily ==
    [][/\ ld_depmod'.inits <= 1
       /\ OpensDepmod => EmittedNeedsDepmod
       /\ ld_depmod.init_failed => DepmodUntouched
       /\ DepmodInitFails =>
             /\ ld_depmod'.finds = ld_depmod.finds
             /\ ld_pc' = "iter"]_vars

\* the last call to the indexer reported the failure of depmod_index_init
\* and returned an error: the fatal abort, or the out-of-memory error that
\* depmod_index_init had returned
DepmodInitErrorWasFatal ==
    /\ ld_err' \in {"ABORT", "ENOMEM"}
    /\ ld_reports'[Len(ld_reports')].op = "error"
    /\ ld_reports'[Len(ld_reports')].cause = "depmod init"
    /\ ld_reports'[Len(ld_reports')].ret = ld_err'

\* C18 (amended): as C18, but the run continues with the next module unless
\* the report of the failure to the indexer returns an error (the fatal
\* abort, or the out-of-memory error when that is what depmod_index_init
\* returned), which ends the iteration.
C18_DepmodOpenedOnceLazilyUnlessAbort ==
    [][/\ ld_depmod'.inits <= 1
       /\ OpensDepmod => EmittedNeedsDepmod
       /\ ld_depmod.init_failed => DepmodUntouched
       /\ DepmodInitFails =>
             /\ ld_depmod'.finds = ld_depmod.finds
             /\ IF ld_err' = "none" THEN ld_pc' = "iter" /\ ~ld_depmod'.ptr
                ELSE ld_pc' = "rkm_out" /\ DepmodInitErrorWasFatal]_vars

\* depmod_index_init failed for the first of two modules that need the
\* index, and the second was emitted
C18_Witness ==
    /\ ld_pc = "iter"
    /\ ld_it.n = 2
    /\ ld_in.load_default
    /\ ld_kmods = <<>>
    /\ ~ld_in.mods[1].indexed /\ ~ld_in.mods[2].indexed
    /\ ld_depmod.init_failed
    /\ ld_depmod.inits = 1
    /\ ld_depmod.finds = 0

\* a step in which depmod_index_find is called
LooksUp == ld_depmod'.finds # ld_depmod.finds

\* C19: once depmod_index_find has found the index data malformed, no later
\* module is looked up in the index, and the run is not aborted (unless the
\* indexer answers the report of the error with the fatal abort).
C19_DepmodAbandonedAfterFindError ==
    [][/\ ld_depmod.find_failed => ~LooksUp
       /\ (~ld_depmod.find_failed /\ ld_depmod'.find_failed) =>
             ld_pc' = "iter" \/ ld_err' = "ABORT"]_vars

\* the mappings of modules.dep.bin that are live
LiveMappings == ld_depmod.maps - ld_depmod.unmaps

\* C20: at most one depmod mapping is live at any point of a run, with
\* depmod.addr pointing to it; none is unmapped twice, none is left mapped
\* when the run returns, whether the validation in depmod_index_init failed,
\* the run ended normally or with a fatal error; and depmod_index_find is
\* only called on an index that is mapped.
C20_OneMappingUnmappedOnce ==
    /\ [](/\ LiveMappings \in {0, 1}
          /\ LiveMappings = 1 <=> ld_depmod.addr = "mapped"
          /\ LdDone => LiveMappings = 0)
    /\ [][LooksUp =>
             /\ ld_depmod.addr = "mapped" \/ OpensDepmod
             /\ ld_depmod'.addr = "mapped"
             /\ ld_depmod'.maps = ld_depmod'.unmaps + 1]_vars

\* a run in which two modules were looked up in the index has returned
C20_Witness ==
    /\ LdDone
    /\ ld_depmod.maps = 1
    /\ ld_depmod.unmaps = 1
    /\ ld_depmod.finds = 2

(***************************************************************************)
(* Properties of the discovery run: errors of the module iterator          *)
(***************************************************************************)
\* the calls of report_error for a failed kernel_module_iterator_next
IteratorNextErrors ==
    {i \in ErrorReports : ld_reports[i].cause = "iterator_next"}

\* C21: once a step of the module iterator has returned an error other than
\* stop, the iterator is not stepped again and no module is matched or
\* looked up any more, and the run does not return success.
C21_IteratorErrorPropagates ==
    /\ [](IteratorNextErrors # {} =>
             /\ ld_it.state = "dead"
             /\ LdDone => ld_err # "none")
    /\ [][IteratorNextErrors # {} =>
             /\ ld_it'.n = ld_it.n
             /\ ld_depmod'.finds = ld_depmod.finds]_vars

(***************************************************************************)
(* Properties of the discovery run: out of memory                          *)
(***************************************************************************)
\* an allocation has failed in the latest step that worked on the run's
\* data; the steps that end a run leave the count as it is
OutOfMemory == ld_flags.enomem > 0

\* the run is on its way out: nothing is inserted, stepped or reported any more
LdLeaving == ld_pc \in {"rkm_out", "out", "done"}

\* C22 (as claimed): from the step in which an allocation fails (candidate
\* array, build-ID map entry, section-name map, build-ID buffer of the
\* module iterator, path formatting) the run holds the out-of-memory error, is on
\* its way out, makes no further call to the indexer and allocates no more,
\* so that it returns the out-of-memory error.
C22_OutOfMemoryIsFatal ==
    /\ [](OutOfMemory =>
             /\ ld_flags.enomem = 1
             /\ ld_err = "ENOMEM"
             /\ LdLeaving)
    /\ [][OutOfMemory =>
             /\ ld_reports' = ld_reports
             /\ ld_it'.n = ld_it.n
             /\ ld_err' = ld_err]_vars

(***************************************************************************)
(* Properties of the discovery run: what an ELF file is identified as      *)
(***************************************************************************)
\* the file behind the path the step is at, and the names libelf yields for
\* its sections
PathFile == ld_in.paths[ld_i]

NamesOf(d) ==
    {d.scns[i].name : i \in {j \in DOMAIN d.scns : d.scns[j].shdr /\ d.scns[j].strptr}}

\* libelf fails on the file before a section named .gnu.linkonce.this_module
\* was found
IdentifyFails(d) ==
    \/ ~d.shstrndx
    \/ \E i \in DOMAIN d.scns :
          /\ d.scns[i].shdr /\ ~d.scns[i].strptr
          /\ \A j \in 1..(i - 1) :
                ~(d.scns[j].shdr /\ d.scns[j].strptr /\ d.scns[j].name = ThisModule)

\* what the step did with the file: set it aside as a module, reported it as
\* the kernel (or the error of elf_address_range), reported it as it is with
\* range [0, 0] and no name, or reported the error of identify_kernel_elf
SetAside ==
    /\ Len(ld_kmods') = Len(ld_kmods) + 1
    /\ ld_kmods' = Append(ld_kmods, ld_kmods'[Len(ld_kmods')])
    /\ ld_kmods'[Len(ld_kmods')].path = ld_i
    /\ ld_reports' = ld_reports

LastReport == ld_reports'[Len(ld_reports')]

ReportedOnce == Len(ld_reports') = Len(ld_reports) + 1 /\ ld_kmods' = ld_kmods

ReportedAsKernel ==
    /\ ReportedOnce
    /\ \/ LastReport.op = "elf" /\ LastReport.name = KernelName
       \/ LastReport.op = "error" /\ LastReport.cause = "range"
    /\ LastReport.op = "elf" => LastReport.path = PathName(ld_i)

ReportedAsIs ==
    /\ ReportedOnce
    /\ LastReport.op = "elf"
    /\ LastReport.path = PathName(ld_i)
    /\ LastReport.start = 0
    /\ LastReport.end = 0
    /\ LastReport.name = NoName

ReportedIdentifyError ==
    /\ ReportedOnce
    /\ LastReport.op = "error"
    /\ LastReport.cause = "libelf"
    /\ LastReport.name = PathName(ld_i)

\* C23: an ELF file on which identify_kernel_elf succeeds is identified by
\* the names of its sections only: it is set aside as a module if a section
\* is named .gnu.linkonce.this_module, taken as vmlinux if one is named
\* .init.text and none .gnu.linkonce.this_module, and otherwise handed to the
\* indexer in the same step with range [0, 0]; the order of the sections
\* makes no difference.
C23_IdentifiedBySectionNames ==
    [][(ld_pc = "paths" /\ PathFile.kind = "elf") =>
          IF IdentifyFails(PathFile) THEN ReportedIdentifyError
          ELSE IF ThisModule \in NamesOf(PathFile) THEN SetAside
          ELSE IF InitText \in NamesOf(PathFile) THEN ReportedAsKernel
          ELSE ReportedAsIs]_vars

\* a file with .init.text before .gnu.linkonce.this_module was set aside as
\* a module
C23_Witness ==
    /\ ld_pc = "main"
    /\ Len(ld_in.paths[1].scns) = 3
    /\ ld_in.paths[1].scns[1].name = InitText
    /\ ld_in.paths[1].scns[3].name = ThisModule
    /\ Len(ld_kmods) = 1
    /\ ld_reports = <<>>

(***************************************************************************)
(* Properties of the discovery run: the backend of the iterators           *)
(***************************************************************************)
\* the values of DRGN_USE_PROC_AND_SYS_MODULES that stand for an int other
\* than zero; 4294967296 is zero as an int
EnvNonZero ==
    ld_in.prog.env.value \in
        {<<"0", "1">>, <<"1">>, <<"-", "1">>, <<" ", "2">>, <<"+", "9", "x">>}

\* the target is live and the variable is absent or not zero
LiveBackendsChosen == ld_in.prog.live /\ (~ld_in.prog.env.set \/ EnvNonZero)

\* C24: the module iterator reads /proc/modules, and the section iterators
\* read /sys/module, exactly when the target is live and
\* DRGN_USE_PROC_AND_SYS_MODULES is absent or converts to a non-zero int;
\* otherwise they walk the kernel's data structures; the section iterators
\* of a run use the backend of its module iterator.
C24_BackendChosenOnce ==
    /\ ld_it.state # "none" => (ld_it.modules_file <=> LiveBackendsChosen)
    /\ \A sections_dir \in ld_it.sects :
          /\ sections_dir <=> LiveBackendsChosen
          /\ sections_dir <=> ld_it.modules_file

\* a run on a live target with the variable set to 0 has used the kernel
\* walk for its module iterator and for a section iterator
C24_Witness ==
    /\ LdDone
    /\ ld_in.prog.live
    /\ ld_in.prog.env.set /\ ld_in.prog.env.value = <<"0">>
    /\ ld_it.state = "dead"
    /\ ~ld_it.modules_file
    /\ ld_it.sects = {FALSE}

(***************************************************************************)
(* Properties of the module iterator: after stop or an error               *)
(***************************************************************************)
\* the step is a call of kernel_module_iterator_next on an iterator whose
\* last call returned stop or an error
CalledAfterEnd ==
    /\ it_pc = "iter"
    /\ it_calls > 0
    /\ it_err # "none"
    /\ it_calls' = it_calls + 1

\* C25: once kernel_module_iterator_next has returned stop or an error, every
\* later call on the same iterator returns stop or an error again and emits
\* no module, with either backend.
C25_TerminalAfterStopOrError == [][CalledAfterEnd => it_err' # "none"]_it_calls


(***************************************************************************)
(* Properties of the kernel-walk steps: where LOOKUP is consumed           *)
(***************************************************************************)
\* the first error of a sequence of error kinds, "none" if there is none
FirstOf(errs) ==
    IF \A j \in 1..Len(errs) : errs[j] = "none" THEN "none"
    ELSE errs[CHOOSE j \in 1..Len(errs) :
                 errs[j] # "none" /\ \A l \in 1..(j - 1) : errs[l] = "none"]

\* the members the module step accesses on module k after next, in order:
\* module_core and core_size stand in for core_layout's base and size
\* exactly when the access to core_layout fails with LOOKUP
ModuleStepMembers(t, k) ==
    <<"list", "core_layout">>
    \o (IF WalkAccess(t, k, "core_layout") = "LOOKUP"
        THEN <<"core_size", "module_core">> ELSE <<"size", "base">>)
    \o <<"read_base", "read_size", "name">>

\* what the module step on module k is to return: the first error of its
\* accesses, the LOOKUP of core_layout alone being consumed
ModuleStepReturns(t, k) ==
    IF WalkAccess(t, k, "next") # "none" THEN WalkAccess(t, k, "next")
    ELSE IF k = 0 THEN "stop"
    ELSE FirstOf([j \in 1..Len(ModuleStepMembers(t, k)) |->
                     IF /\ ModuleStepMembers(t, k)[j] = "core_layout"
                        /\ WalkAccess(t, k, "core_layout") = "LOOKUP"
                     THEN "none"
                     ELSE WalkAccess(t, k, ModuleStepMembers(t, k)[j])])

\* the members the section step accesses on section k, in order: the
\* section's own name stands in for battr.attr.name exactly when the access
\* to battr fails with LOOKUP
SectionStepMembers(s, k) ==
    <<"subscript", "address", "read_address", "battr">>
    \o (IF SectAccess(s, k, "battr") = "LOOKUP"
        THEN <<"sect_name">> ELSE <<"attr", "name">>)
    \o <<"read_name">>

SectionStepReturns(s, k) ==
    FirstOf([j \in 1..Len(SectionStepMembers(s, k)) |->
                IF /\ SectionStepMembers(s, k)[j] = "battr"
                   /\ SectAccess(s, k, "battr") = "LOOKUP"
                THEN "none"
                ELSE SectAccess(s, k, SectionStepMembers(s, k)[j])])

\* the step is a call of kernel_module_iterator_next on the kernel walk
ModuleStepped ==
    /\ it_pc = "iter"
    /\ it.modules_file = "NULL"
    /\ it_calls' = it_calls + 1

\* the step is a call of kernel_module_section_iterator_next on the kernel
\* walk with a section left
SectionStepped ==
    /\ cs_pc = "patch"
    /\ ~cs_in.sect.live
    /\ cs_i <= Len(cs_in.run)
    /\ cs_i' = cs_i + 1

\* C26: the kernel-walk module step falls back to module_core and core_size
\* exactly when the access to core_layout fails with LOOKUP, returns any
\* other error of that access and a LOOKUP of any other access; the section
\* step does the same with battr and the section's own name member.
C26_LookupConsumedAtFallbackOnly ==
    [][/\ ModuleStepped =>
            it_err' = ModuleStepReturns(it_target,
                                        (it.node + 1) % (Len(it_target.mods) + 1))
       /\ SectionStepped =>
            IF SectionStepReturns(cs_in.sect, cs_i) = "none"
            THEN cs_err' \in {"none", "libelf"}
            ELSE /\ cs_err' = SectionStepReturns(cs_in.sect, cs_i)
                 /\ cs_pc' = "done"]_<<it_calls, cs_i>>

\* the first module of a target whose struct module has no core_layout was
\* emitted from module_core and core_size
C26_Witness ==
    /\ it_pc = "iter"
    /\ it.modules_file = "NULL"
    /\ it_target.legacy
    /\ it_target.fail = NoFail
    /\ it_calls = 1
    /\ it_err = "none"
    /\ it.name = ModName(1)


(***************************************************************************)
(* Properties of the discovery run: sections are patched before the report *)
(***************************************************************************)
\* the calls of report_elf that hand over a module file with the address
\* range of a loaded module
LoadedModuleReports ==
    {i \in ElfReports :
        /\ ld_reports[i].name # KernelName
        /\ <<ld_reports[i].start, ld_reports[i].end>> # <<0, 0>>}

\* the reports of a failure of cache_kernel_module_sections
PatchErrors == {i \in ErrorReports : ld_reports[i].cause = "sections"}

\* C27: whenever a module file is handed to the indexer with the range of a
\* loaded module, cache_kernel_module_sections has returned success for it
\* before that call of report_elf, and a file for which it failed is never
\* handed to the indexer.
C27_PatchedBeforeReported ==
    /\ \A i \in LoadedModuleReports :
          /\ ld_files[ld_reports[i].file].patched # NotPatched
          /\ ld_files[ld_reports[i].file].patched < i
    /\ \A i \in PatchErrors :
          \A j \in ElfReports : ld_reports[j].path # ld_reports[i].name

\* a run that failed to patch one supplied file of a module, reported a
\* second one for it and a file from the standard location for another
C27_Witness ==
    /\ LdDone
    /\ \E i \in PatchErrors : ld_reports[i].name = PathName(1)
    /\ \E i \in LoadedModuleReports :
          /\ ld_reports[i].path = PathName(2)
          /\ ld_files[ld_reports[i].file].patched = i - 1
    /\ \E i \in LoadedModuleReports : ld_reports[i].path = KoPath(2)


(***************************************************************************)
(* Properties of the discovery run: errors that are not fatal              *)
(***************************************************************************)
\* the indexer answered no call with an error and no allocation that failed
\* ended the run
NothingFatal ==
    /\ \A i \in DOMAIN ld_reports : ld_reports[i].ret = "none"
    /\ ld_flags.enomem = 0

\* the path p was passed to open_elf_file and dealt with: an error was
\* reported for it, or its file was handed to the indexer
DealtWith(p) ==
    \/ \E i \in ErrorReports : ld_reports[i].name = PathName(p)
    \/ \E i \in ElfReports : ld_reports[i].path = PathName(p)

\* kmods[k] was set aside for the path p
SetAsideFor(k, p) == ld_kmods[k].path = p

\* the files kmods[j] and kmods[k] are in one chain of the build-ID map
SameChain(j, k) ==
    /\ ld_in.paths[ld_kmods[j].path].build_id >= 0
    /\ ld_in.paths[ld_kmods[j].path].build_id = ld_in.paths[ld_kmods[k].path].build_id

\* the patching of kmods[j] failed and was reported
PatchFailed(j) ==
    \E i \in PatchErrors : ld_reports[i].name = PathName(ld_kmods[j].path)

\* C28: a run in which the indexer never answers with the fatal abort and no
\* allocation fails returns success; every supplied path was passed to
\* open_elf_file and, if it could be opened, classified: it was reported, set
\* aside as a module file, or an error was reported for it; and when the
\* patching of one file of a chain fails, the other files of the chain that
\* can be patched are patched and reported for the module.
C28_ErrorsDoNotStopTheRun ==
    (LdDone /\ NothingFatal) =>
        /\ ld_err = "none"
        /\ \A p \in 1..Len(ld_in.paths) :
              /\ DealtWith(p)
              /\ ld_in.paths[p].kind # "noent" =>
                    \E f \in DOMAIN ld_files : ld_files[f].path = PathName(p)
              /\ ld_in.paths[p].kind = "module" =>
                    \E k \in DOMAIN ld_kmods : SetAsideFor(k, p)
        /\ \A j, k \in DOMAIN ld_kmods :
              (PatchFailed(j) /\ SameChain(j, k) /\ PatchSucceeds(k)) =>
                  \E i \in LoadedModuleReports :
                     /\ ld_reports[i].file = ld_kmods[k].file
                     /\ ld_files[ld_kmods[k].file].patched = i - 1

\* a run ended with success after the patching of the first-tried file of a
\* chain of two failed; the other file of the chain was reported for the module
C28_Witness ==
    /\ LdDone /\ NothingFatal
    /\ Len(ld_in.paths) = 2
    /\ ld_in.paths[1].kind = "module" /\ ld_in.paths[1].patch = "ok"
    /\ ld_in.paths[2].kind = "module" /\ ld_in.paths[2].patch = "fail"
    /\ PatchFailed(2)
    /\ \E i \in LoadedModuleReports : ld_reports[i].path = PathName(1)
    /\ ld_err = "none"


(***************************************************************************)
(* Properties of the discovery run: the build-ID map and handed-over files *)
(***************************************************************************)
\* kmods[k] was passed to report_elf
HandedOver(k) == \E i \in ElfReports : ld_reports[i].file = ld_kmods[k].file

\* C29: a supplied module file that was passed to report_elf is in no chain
\* of the build-ID map: the entry of its chain was deleted before the call.
C29_ReportedFilesNotInMap ==
    \A k \in DOMAIN ld_kmods : HandedOver(k) => ~InTable(k)

\* the chain of one build ID was reported for a loaded module while the
\* chain of another build ID is still in the map
C29_Witness ==
    /\ ld_pc = "iter"
    /\ \E k \in DOMAIN ld_kmods : HandedOver(k) /\ ld_kmods[k].gnu_build_id = 1
    /\ ld_table[2] # 0
    /\ ld_table[1] = 0


(***************************************************************************)
(* Properties of the iterators' lifetime                                   *)
(***************************************************************************)
\* an iterator that was never initialised was never deinitialised by its
\* caller, and one that was initialised was deinitialised once
DeinitialisedOnce(s) ==
    \/ s.state = "none" /\ s.deinits = 0
    \/ s.state = "dead" /\ s.deinits = 1

\* C30: report_loaded_kernel_modules steps the module iterator only while it
\* is initialised and has returned neither stop nor an error; when the run
\* has returned, and when cache_kernel_module_sections has returned, the
\* module iterator and the section iterator were deinitialised exactly once
\* if their initialisation succeeded, and not at all by the caller if it
\* failed.
C30_IteratorsDeinitialisedOnce ==
    /\ [](/\ ld_it.deinits <= 1
          /\ ld_pc = "iter" <=> ld_it.state = "live"
          /\ LdDone => DeinitialisedOnce(ld_it)
          /\ cs_sect_it.deinits <= 1
          /\ cs_pc = "patch" <=> cs_sect_it.state = "live"
          /\ cs_pc = "done" => DeinitialisedOnce(cs_sect_it))
    /\ [][ld_it.state = "dead" =>
             ld_it'.state = "dead" /\ ld_it'.n = ld_it.n]_<<ld_it, ld_pc>>

\* a run that the indexer aborted while the second module was reported has
\* returned with the module iterator deinitialised once
C30_Witness ==
    /\ LdDone
    /\ ld_err = "ABORT"
    /\ ld_it.n = 2
    /\ ld_it.state = "dead"
    /\ ld_it.deinits = 1
    /\ ld_reports[Len(ld_reports)].op = "elf"


(***************************************************************************)
(* Properties of parse_gnu_build_id_from_note                              *)
(***************************************************************************)
\* the note is a GNU build ID note with a descriptor
IsBuildIdNote(n) ==
    /\ n.namesz = 4
    /\ n.name = <<71, 78, 85, 0>>
    /\ n.type = 3
    /\ n.descsz > 0

\* the bytes a well-formed note takes in the buffer, and the offset of its
\* descriptor in them
NoteBytes(n) == 12 + Len(n.name) + Len(NotePad(Len(n.name)))
                + Len(n.desc) + Len(NotePad(Len(n.desc)))

DescOffset(n) == 12 + Len(n.name) + Len(NotePad(Len(n.name)))

\* the first build ID note among the notes ns that start at offset o: the
\* offset of its descriptor and the descriptor, or no build ID
RECURSIVE FirstBuildId(_, _)
FirstBuildId(ns, o) ==
    IF ns = <<>> THEN [ptr |-> NullPtr, len |-> 0, desc |-> <<>>]
    ELSE IF IsBuildIdNote(Head(ns))
    THEN [ptr |-> o + DescOffset(Head(ns)), len |-> Len(Head(ns).desc),
          desc |-> Head(ns).desc]
    ELSE FirstBuildId(Tail(ns), o + NoteBytes(Head(ns)))

\* the bytes the call returned
ReturnedBytes == SubSeq(nb_in.note, nb_ret.ptr + 1, nb_ret.ptr + nb_ret.len)

\* C31: on a buffer of well-formed notes parse_gnu_build_id_from_note returns
\* the descriptor of the first note of name size 4, name "GNU" with its NUL,
\* type 3 and a descriptor that is not empty, build ID notes with an empty
\* descriptor being passed over; it returns NULL and 0 when there is no such
\* note; with bswap set the header fields are swapped before they are used.
C31_FirstBuildIdReturned ==
    /\ nb_pc # "fault"
    /\ nb_pc = "done" =>
          /\ nb_ret.ptr = FirstBuildId(nb_in.notes, 0).ptr
          /\ nb_ret.len = FirstBuildId(nb_in.notes, 0).len
          /\ ReturnedBytes = FirstBuildId(nb_in.notes, 0).desc

\* from a buffer in the other byte order, a build ID note with an empty
\* descriptor was passed over and the four bytes of the next one returned
C31_Witness ==
    /\ nb_pc = "done"
    /\ nb_in.bswap
    /\ Len(nb_in.notes) = 2
    /\ IsBuildIdNote(nb_in.notes[2])
    /\ nb_in.notes[1].name = GnuName /\ nb_in.notes[1].descsz = 0
    /\ nb_ret = [ptr |-> 32, len |-> 4]
    /\ ReturnedBytes = <<9, 8, 7, 6>>


\* C32: whatever the bytes and the size of the buffer,
\* parse_gnu_build_id_from_note reads inside the buffer only: p is not past
\* the end when a header is about to be read, no byte at or after note_size
\* is read, and a range the call returns lies inside the buffer.
C32_ReadsInsideBuffer ==
    /\ nb_pc = "loop" => nb_p <= Len(nb_in.note)
    /\ nb_read <= Len(nb_in.note)
    /\ nb_pc # "fault"
    /\ (nb_pc = "done" /\ nb_ret.ptr # NullPtr) =>
          nb_ret.ptr + nb_ret.len <= Len(nb_in.note)


(***************************************************************************)
(* C33: depmod_index_find returns for every index and every name, cyclic   *)
(* node offsets included: a step from a node to a child consumes at least  *)
(* one byte of the name, so at most Len(name) + 1 nodes are visited before *)
(* the function returns a path, "not found" or an error.                   *)
(***************************************************************************)
MovedToChild == dm_pc = "node" /\ dm_nodes > 0 /\ dm_pc' = "node"

WalkReturned ==
    /\ dm_pc = "done"
    /\ \/ dm_err = "OTHER"
       \/ dm_err = "none" /\ dm_path = <<>>
       \/ dm_err = "none" /\ dm_why = "found" /\ Len(dm_path) = 2

C33_WalkTerminates ==
    /\ [](dm_nodes <= Len(dm_name) + 1 /\ dm_n <= Len(dm_name))
    /\ [][MovedToChild => dm_n' >= dm_n + 1]_dm_nodes
    /\ (dm_pc = "call") ~> WalkReturned

C33_Witness ==
    /\ dm_index \in DepmodCyclic
    /\ Len(dm_name) >= 3
    /\ dm_nodes = Len(dm_name) + 1
    /\ dm_why = "found"
    /\ WalkReturned

====
